---- MODULE Spec2Model ----
(***************************************************************************)
(* The two popular-list caches of the stock-and-crypto tracker:            *)
(*   CacheService.get_or_fetch_popular_stocks  (services/cache_service.py) *)
(*   CryptoService.get_top_cryptos             (services/crypto_service.py)*)
(* Requests are served by the threads of the Flask server (app.run), so    *)
(* each request is a sequence of steps, one per access to the shared cache *)
(* dictionary or to the upstream, and the steps of different requests      *)
(* interleave.  Neither service takes a lock.                              *)
(*                                                                         *)
(* The stateless methods of StockService and CryptoService (_make_request, *)
(* get_stock_data, get_crypto_data, search_crypto, get_crypto_by_symbol    *)
(* and the three history normalizers) are operators; MethodSpec applies    *)
(* each of them once to an argument drawn from a bounded set of payloads.  *)
(*                                                                         *)
(* WarmSpec runs the requests on a cache that an earlier request has       *)
(* filled; RecoverySpec runs them after a fallback, with the upstream      *)
(* healthy from then on and every request thread scheduled fairly.         *)
(***************************************************************************)
EXTENDS Integers, Sequences, FiniteSets, TLC

(* ------------------------------------------------------------------ *)
(* Bounds of the model                                                 *)
(* ------------------------------------------------------------------ *)

\* Requests started in one behaviour.
MaxRequests == 2

\* How many entries of InstantTable the clock may take.
MaxInstants == 4

\* The request threads.
Threads == {"t1", "t2"}

\* Readings of time.time() (seconds since the epoch) the model samples; they
\* put ages just below, at and just above both TTLs.  The timestamp 0 a cache
\* starts with is older than any TTL at every one of them.
InstantTable ==
    <<1700000000, 1700000001, 1700000120, 1700003600, 1700003601, 1700003721,
      1700007201>>

\* Coins the upstream search may list (one more than search_crypto keeps).
MaxResults == 11

\* Points an upstream price, volume or candle array may hold.
MaxPoints == 5

\* The ?top= values requests arrive with (0 and 101 are clamped).
TopInputs == {0, 2, 101}

(* ------------------------------------------------------------------ *)
(* Config                                                              *)
(* ------------------------------------------------------------------ *)

CACHE_DURATION == 3600
MAX_TOP_STOCKS == 100
DEFAULT_TOP_STOCKS == 10
MAX_TOP_CRYPTOS == 100
CRYPTO_CACHE_DURATION == 120

DEFAULT_TOP_STOCKS_LIST ==
    <<"NVDA", "AAPL", "GOOG", "MSFT", "AMZN", "META", "AVGO", "TSLA", "TSM", "BRK-B">>

(* ------------------------------------------------------------------ *)
(* Values                                                              *)
(* ------------------------------------------------------------------ *)

\* A Python value that is None or a list: [some |-> FALSE] is None.
None == [some |-> FALSE, items |-> <<>>]
List(s) == [some |-> TRUE, items |-> s]

\* Python truthiness of None / a list: a non-empty list.
Truthy(d) == d.some /\ d.items # <<>>

Min(a, b) == IF a < b THEN a ELSE b
Max(a, b) == IF a > b THEN a ELSE b

\* s[:n] for n >= 0.
Prefix(s, n) == SubSeq(s, 1, Min(n, Len(s)))

\* Mutant of the clamp: the lower end is not enforced.
ClampNoFloor(top, max) == Min(top, max)

\* min(max(top, 1), MAX)
Clamp(top, max) == Min(Max(top, 1), max)

\* What a request returns: a list, None, or (jsonify(error), status).
RetList(s) == [kind |-> "list", items |-> s, status |-> 200]
RetNone == [kind |-> "none", items |-> <<>>, status |-> 0]
RetError(status) == [kind |-> "error", items |-> <<>>, status |-> status]

(* ------------------------------------------------------------------ *)
(* Upstream: companiesmarketcap.com                                    *)
(* ------------------------------------------------------------------ *)

\* Texts of the '.company-code' elements of a page, in page order.
StockPages ==
    { <<>>,
      <<"NVDA", "AAPL", "GOOG">>,
      <<"", "AAPL", "MSFT">> }

\* Outcomes of requests.get(MARKET_CAP_URL, timeout=...).
StockResponses ==
    { [kind |-> "timeout", status |-> 0, elements |-> <<>>],
      [kind |-> "connerr", status |-> 0, elements |-> <<>>],
      [kind |-> "http", status |-> 503, elements |-> <<>>] }
    \cup { [kind |-> "http", status |-> 200, elements |-> p] : p \in StockPages }

RECURSIVE NonEmptyTexts(_)
\* for element in elements: symbol = element.get_text(); if symbol: append
NonEmptyTexts(els) ==
    IF els = <<>> THEN <<>>
    ELSE IF Head(els) # "" THEN <<Head(els)>> \o NonEmptyTexts(Tail(els))
         ELSE NonEmptyTexts(Tail(els))

\* symbols built from elements[:top]
ScrapeSymbols(elements, top) == NonEmptyTexts(Prefix(elements, top))

(* ------------------------------------------------------------------ *)
(* Upstream: CoinGecko /coins/markets                                  *)
(* ------------------------------------------------------------------ *)

\* Raw coins of the JSON payload.  Amounts are in thousandths of a unit; a key
\* the payload omits is missing from the record's DOMAIN.
Bitcoin ==
    [id |-> "bitcoin", symbol |-> "btc", name |-> "Bitcoin",
     current_price |-> 67123456, price_change_24h |-> -1234,
     price_change_percentage_24h |-> 2346, price_change_percentage_7d_in_currency |-> -512,
     market_cap |-> 1300000, total_volume |-> 35000, image |-> "btc.png",
     market_cap_rank |-> 1, high_24h |-> 68000000, low_24h |-> 66000000,
     circulating_supply |-> 19000, total_supply |-> 21000, ath |-> 73000000,
     ath_change_percentage |-> -8049]
Ethereum ==
    [id |-> "ethereum", symbol |-> "eth", name |-> "Ethereum",
     current_price |-> 3456789, price_change_24h |-> 45678,
     price_change_percentage_24h |-> 1338, price_change_percentage_7d_in_currency |-> 4001,
     market_cap |-> 400000, total_volume |-> 15000, image |-> "eth.png",
     market_cap_rank |-> 2, high_24h |-> 3500000, low_24h |-> 3400000,
     circulating_supply |-> 120000, ath |-> 4800000,
     ath_change_percentage |-> -28004]
Tether ==
    [id |-> "tether", symbol |-> "usdt", name |-> "Tether",
     current_price |-> 1001, market_cap |-> 110000, total_volume |-> 50000,
     market_cap_rank |-> 3, high_24h |-> 1002, low_24h |-> 999,
     circulating_supply |-> 110000, total_supply |-> 110000, ath |-> 1320]

\* Market rankings the upstream may hold when a request reaches it.
Markets ==
    { <<>>,
      <<Bitcoin, Ethereum, Tether>>,
      <<Ethereum, Bitcoin>> }

\* Outcomes of requests.get(url, params=params, timeout=...): the markets
\* endpoint answers 200 with the first per_page coins of its ranking.
CryptoResponses(per_page) ==
    { [kind |-> "timeout", status |-> 0, json |-> <<>>],
      [kind |-> "connerr", status |-> 0, json |-> <<>>],
      [kind |-> "http", status |-> 429, json |-> <<>>],
      [kind |-> "http", status |-> 500, json |-> <<>>] }
    \cup { [kind |-> "http", status |-> 200, json |-> Prefix(m, per_page)] : m \in Markets }

\* Mutant of _make_request: the status of the answer is not looked at.
make_request_any_status(response) ==
    IF response.kind = "http" THEN List(response.json) ELSE None

\* CryptoService._make_request: the payload for a 200, None otherwise.  The
\* ELSE branch is the except clause: requests.get raised (timeout, connection
\* error) or response.json() raised (a 200 whose body is not JSON).
make_request(response) ==
    IF response.kind = "http"
    THEN IF response.status = 200 THEN List(response.json)
         ELSE IF response.status = 429 THEN None
         ELSE None
    ELSE None

\* coin.get(key, default)
Get(coin, key, default) == IF key \in DOMAIN coin THEN coin[key] ELSE default

\* str.upper() on the symbols of the model
Upper(s) ==
    CASE s = "btc" -> "BTC"
      [] s = "eth" -> "ETH"
      [] s = "usdt" -> "USDT"
      [] s = "nms" -> "NMS"
      [] s = "lse" -> "LSE"
      [] s = "aapl" -> "AAPL"
      [] OTHER -> s

\* round(x, 2): thousandths in, hundredths out, ties to even.
Round2(m) ==
    LET q == m \div 10
        r == m % 10
    IN  IF r < 5 THEN q
        ELSE IF r > 5 THEN q + 1
        ELSE IF q % 2 = 0 THEN q ELSE q + 1

\* The record get_top_cryptos appends for one coin.
CryptoRecord(coin) ==
    [id |-> Get(coin, "id", "None"),
     symbol |-> Upper(Get(coin, "symbol", "")),
     name |-> Get(coin, "name", "None"),
     price |-> Get(coin, "current_price", 0),
     change |-> Round2(Get(coin, "price_change_24h", 0)),
     changePercent |-> Round2(Get(coin, "price_change_percentage_24h", 0)),
     changePercent7d |-> Round2(Get(coin, "price_change_percentage_7d_in_currency", 0)),
     marketCap |-> Get(coin, "market_cap", 0),
     volume |-> Get(coin, "total_volume", 0),
     image |-> Get(coin, "image", "None"),
     rank |-> Get(coin, "market_cap_rank", 0),
     high24h |-> Get(coin, "high_24h", 0),
     low24h |-> Get(coin, "low_24h", 0),
     circulatingSupply |-> Get(coin, "circulating_supply", 0),
     totalSupply |-> Get(coin, "total_supply", 0),
     ath |-> Get(coin, "ath", 0),
     athChangePercent |-> Round2(Get(coin, "ath_change_percentage", 0))]

\* cryptos = [record(coin) for coin in data]
CryptoRecords(data) == [i \in 1..Len(data) |-> CryptoRecord(data[i])]

(* ------------------------------------------------------------------ *)
(* The cache test and the cache updates                                *)
(* ------------------------------------------------------------------ *)

\* Mutants of the cache test and of the cache updates.
NotExpiredInclusive(timestamp, tnow, ttl) == tnow - timestamp <= ttl
LongEnoughOffByOne(data, top) == Len(data.items) > top
LongEnoughAnyLength(data, top) == Len(data.items) > 0
CachedSliceWhole(data, top) == data.items
StoreDataMerged(cache, items) == [cache EXCEPT !.data = List(cache.data.items \o items)]

\* time.time() - cache['timestamp'] < TTL
NotExpired(timestamp, tnow, ttl) == tnow - timestamp < ttl

\* len(cache['data']) >= top
LongEnough(data, top) == Len(data.items) >= top

\* cache['data'][:top]
CachedSlice(data, top) == Prefix(data.items, top)

\* cache['data'] = <the list just built>
StoreData(cache, items) == [cache EXCEPT !.data = List(items)]

\* cache['timestamp'] = time.time()
StoreTimestamp(cache, tnow) == [cache EXCEPT !.timestamp = tnow]

(* ------------------------------------------------------------------ *)
(* State                                                               *)
(* ------------------------------------------------------------------ *)

VARIABLES
    now,                    \* the reading time.time() gives
    popular_stocks_cache,   \* CacheService._popular_stocks_cache
    popular_crypto_cache,   \* CryptoService._popular_crypto_cache
    req,                    \* per thread: the request it serves and where it is
    service,                \* the service this behaviour's requests go to: the two
                            \* caches share nothing but the clock
    origin,                 \* history: per cache, where the stored data came from
                            \* and which refresh stored the timestamp
    nreq,                   \* history: requests started
    call                    \* the call of a stateless service method under study:
                            \* its name, its argument and what it returned

vars == <<now, popular_stocks_cache, popular_crypto_cache, req, service, origin, nreq, call>>

\* No stateless method has been called.
NoCall == [fn |-> "none"]

\* A thread between requests.
\*   pc       the statement the thread is at
\*   top      the clamped count
\*   fetched  the local list (symbols / cryptos)
\*   result   the value returned
\* History of the request, for stating properties:
\*   resp     what the upstream answered (none, timeout, connerr, non200, nomatch, ok)
\*   why      which conjunct of the cache test failed (empty, expired, short)
\*   outcome  how the request ended (hit, fresh, static, stale, error, none)
\*   prior    the successfully fetched data the cache held when the request
\*            learnt that its fetch had failed (None when it held none)
\*   seq      the rank of its upstream response, by arrival
\*   checked  the refresh whose timestamp passed the request's age test
Idle ==
    [pc |-> "idle", top |-> 0, fetched |-> <<>>, result |-> RetNone,
     resp |-> "none", why |-> "none", outcome |-> "none", prior |-> None, seq |-> 0,
     checked |-> 0]

EmptyCache == [data |-> None, timestamp |-> 0]

Init ==
    /\ now = InstantTable[1]
    /\ popular_stocks_cache = EmptyCache
    /\ popular_crypto_cache = EmptyCache
    /\ req = [t \in Threads |-> Idle]
    /\ service \in {"stocks", "crypto"}
    /\ origin = [stocks |-> [seq |-> 0, src |-> "none", tseq |-> 0],
                 crypto |-> [seq |-> 0, src |-> "none", tseq |-> 0]]
    /\ nreq = 0
    /\ call = NoCall

\* The clock moves on to a later instant.
Tick ==
    /\ \E i \in 1..MaxInstants : InstantTable[i] > now /\ now' = InstantTable[i]
    /\ UNCHANGED <<popular_stocks_cache, popular_crypto_cache, req, service, origin, nreq, call>>

\* The rank of a response arriving now: above the rank of every response whose
\* data or timestamp is still held by a thread or stored in the cache.
SetMax(S) == CHOOSE m \in S : \A x \in S : x <= m
NextSeq(c) ==
    1 + SetMax({origin[c].seq, origin[c].tseq}
                 \cup {req[t].seq : t \in Threads} \cup {req[t].checked : t \in Threads})

\* The thread's record with some fields replaced.
Goto(t, pc) == [req EXCEPT ![t].pc = pc]
Miss(t, pc, why) == [req EXCEPT ![t].pc = pc, ![t].why = why]

(* ------------------------------------------------------------------ *)
(* CacheService.get_or_fetch_popular_stocks                            *)
(* ------------------------------------------------------------------ *)

\* A request arrives: top = min(max(top, 1), Config.MAX_TOP_STOCKS)
StocksCall(t) ==
    /\ req[t].pc = "idle"
    /\ service = "stocks"
    /\ nreq < MaxRequests
    /\ nreq' = nreq + 1
    /\ \E top \in TopInputs :
         req' = [req EXCEPT ![t].pc = "s_data", ![t].top = Clamp(top, MAX_TOP_STOCKS)]
    /\ UNCHANGED <<now, popular_stocks_cache, popular_crypto_cache, service, origin, call>>

\* if self._popular_stocks_cache['data'] and ...
StocksTestData(t) ==
    /\ req[t].pc = "s_data"
    /\ req' = IF Truthy(popular_stocks_cache.data)
              THEN Goto(t, "s_age") ELSE Miss(t, "s_get", "empty")
    /\ UNCHANGED <<now, popular_stocks_cache, popular_crypto_cache, service, origin, nreq, call>>

\* ... and time.time() - self._popular_stocks_cache['timestamp'] < Config.CACHE_DURATION ...
StocksTestAge(t) ==
    /\ req[t].pc = "s_age"
    /\ req' = IF NotExpired(popular_stocks_cache.timestamp, now, CACHE_DURATION)
              THEN [Goto(t, "s_len") EXCEPT ![t].checked = origin.stocks.tseq]
              ELSE Miss(t, "s_get", "expired")
    /\ UNCHANGED <<now, popular_stocks_cache, popular_crypto_cache, service, origin, nreq, call>>

\* ... and len(self._popular_stocks_cache['data']) >= top:
StocksTestLen(t) ==
    /\ req[t].pc = "s_len"
    /\ req' = IF LongEnough(popular_stocks_cache.data, req[t].top)
              THEN Goto(t, "s_hit") ELSE Miss(t, "s_get", "short")
    /\ UNCHANGED <<now, popular_stocks_cache, popular_crypto_cache, service, origin, nreq, call>>

\* return self._popular_stocks_cache['data'][:top]
StocksHit(t) ==
    /\ req[t].pc = "s_hit"
    /\ req' = [req EXCEPT ![t].pc = "done", ![t].outcome = "hit",
                 ![t].result = RetList(CachedSlice(popular_stocks_cache.data, req[t].top))]
    /\ UNCHANGED <<now, popular_stocks_cache, popular_crypto_cache, service, origin, nreq, call>>

\* Mutant: a non-200 answer is raised like a transport failure, so the static
\* list is installed for it too.
StocksAfterResponseRaiseForStatus(r, response, cached) ==
    IF response.kind # "http"
    THEN [r EXCEPT !.pc = "s_fb_data", !.resp = "exception", !.prior = cached]
    ELSE IF response.status # 200
    THEN [r EXCEPT !.pc = "s_fb_data", !.resp = "non200", !.prior = cached]
    ELSE IF response.elements = <<>>
    THEN [r EXCEPT !.pc = "done", !.resp = "nomatch", !.prior = cached,
                   !.outcome = "error", !.result = RetError(404)]
    ELSE [r EXCEPT !.pc = "s_store_data", !.resp = "ok",
                   !.fetched = ScrapeSymbols(response.elements, r.top)]

\* What the thread does with the answer of requests.get (lines 31-53, 61-69).
StocksAfterResponse(r, response, cached) ==
    IF response.kind # "http"
    THEN \* except Exception
         IF DEFAULT_TOP_STOCKS_LIST # <<>>
         THEN [r EXCEPT !.pc = "s_fb_data", !.resp = "exception", !.prior = cached]
         ELSE [r EXCEPT !.pc = "done", !.resp = "exception", !.prior = cached,
                        !.outcome = "error", !.result = RetError(500)]
    ELSE IF response.status # 200
    THEN [r EXCEPT !.pc = "done", !.resp = "non200", !.prior = cached,
                   !.outcome = "error", !.result = RetError(500)]
    ELSE IF response.elements = <<>>
    THEN [r EXCEPT !.pc = "done", !.resp = "nomatch", !.prior = cached,
                   !.outcome = "error", !.result = RetError(404)]
    ELSE [r EXCEPT !.pc = "s_store_data", !.resp = "ok",
                   !.fetched = ScrapeSymbols(response.elements, r.top)]

\* response = requests.get(Config.MARKET_CAP_URL, timeout=Config.REQUEST_TIMEOUT)
StocksResponse(t) ==
    /\ req[t].pc = "s_get"
    /\ \E response \in StockResponses :
         req' = [req EXCEPT ![t] =
                   [StocksAfterResponse(req[t], response,
                        IF origin.stocks.src = "fetch" THEN popular_stocks_cache.data ELSE None)
                      EXCEPT !.seq = NextSeq("stocks")]]
    /\ UNCHANGED <<now, popular_stocks_cache, popular_crypto_cache, service, origin, nreq, call>>

\* self._popular_stocks_cache['data'] = symbols
StocksStoreData(t) ==
    /\ req[t].pc = "s_store_data"
    /\ popular_stocks_cache' = StoreData(popular_stocks_cache, req[t].fetched)
    /\ origin' = [origin EXCEPT !.stocks.seq = req[t].seq, !.stocks.src = "fetch"]
    /\ req' = Goto(t, "s_store_ts")
    /\ UNCHANGED <<now, popular_crypto_cache, service, nreq, call>>

\* self._popular_stocks_cache['timestamp'] = time.time(); return symbols
StocksStoreTimestamp(t) ==
    /\ req[t].pc = "s_store_ts"
    /\ popular_stocks_cache' = StoreTimestamp(popular_stocks_cache, now)
    /\ req' = [req EXCEPT ![t].pc = "done", ![t].outcome = "fresh",
                 ![t].result = RetList(req[t].fetched)]
    /\ UNCHANGED <<now, popular_crypto_cache, service, nreq, call>>
    /\ origin' = [origin EXCEPT !.stocks.tseq = req[t].seq]

\* self._popular_stocks_cache['data'] = Config.DEFAULT_TOP_STOCKS_LIST
StocksFallbackData(t) ==
    /\ req[t].pc = "s_fb_data"
    /\ popular_stocks_cache' = StoreData(popular_stocks_cache, DEFAULT_TOP_STOCKS_LIST)
    /\ origin' = [origin EXCEPT !.stocks.seq = req[t].seq, !.stocks.src = "static"]
    /\ req' = Goto(t, "s_fb_ts")
    /\ UNCHANGED <<now, popular_crypto_cache, service, nreq, call>>

\* self._popular_stocks_cache['timestamp'] = time.time()
\* return Config.DEFAULT_TOP_STOCKS_LIST
StocksFallbackTimestamp(t) ==
    /\ req[t].pc = "s_fb_ts"
    /\ popular_stocks_cache' = StoreTimestamp(popular_stocks_cache, now)
    /\ req' = [req EXCEPT ![t].pc = "done", ![t].outcome = "static",
                 ![t].result = RetList(DEFAULT_TOP_STOCKS_LIST)]
    /\ UNCHANGED <<now, popular_crypto_cache, service, nreq, call>>
    /\ origin' = [origin EXCEPT !.stocks.tseq = req[t].seq]

(* ------------------------------------------------------------------ *)
(* CryptoService.get_top_cryptos                                       *)
(* ------------------------------------------------------------------ *)

\* A request arrives: top = min(max(top, 1), Config.MAX_TOP_CRYPTOS)
CryptoCall(t) ==
    /\ req[t].pc = "idle"
    /\ service = "crypto"
    /\ nreq < MaxRequests
    /\ nreq' = nreq + 1
    /\ \E top \in TopInputs :
         req' = [req EXCEPT ![t].pc = "c_data", ![t].top = Clamp(top, MAX_TOP_CRYPTOS)]
    /\ UNCHANGED <<now, popular_stocks_cache, popular_crypto_cache, service, origin, call>>

\* if (self._popular_crypto_cache['data'] and
CryptoTestData(t) ==
    /\ req[t].pc = "c_data"
    /\ req' = IF Truthy(popular_crypto_cache.data)
              THEN Goto(t, "c_age") ELSE Miss(t, "c_get", "empty")
    /\ UNCHANGED <<now, popular_stocks_cache, popular_crypto_cache, service, origin, nreq, call>>

\* time.time() - self._popular_crypto_cache['timestamp'] < Config.CRYPTO_CACHE_DURATION and
CryptoTestAge(t) ==
    /\ req[t].pc = "c_age"
    /\ req' = IF NotExpired(popular_crypto_cache.timestamp, now, CRYPTO_CACHE_DURATION)
              THEN [Goto(t, "c_len") EXCEPT ![t].checked = origin.crypto.tseq]
              ELSE Miss(t, "c_get", "expired")
    /\ UNCHANGED <<now, popular_stocks_cache, popular_crypto_cache, service, origin, nreq, call>>

\* len(self._popular_crypto_cache['data']) >= top):
CryptoTestLen(t) ==
    /\ req[t].pc = "c_len"
    /\ req' = IF LongEnough(popular_crypto_cache.data, req[t].top)
              THEN Goto(t, "c_hit") ELSE Miss(t, "c_get", "short")
    /\ UNCHANGED <<now, popular_stocks_cache, popular_crypto_cache, service, origin, nreq, call>>

\* return self._popular_crypto_cache['data'][:top]
CryptoHit(t) ==
    /\ req[t].pc = "c_hit"
    /\ req' = [req EXCEPT ![t].pc = "done", ![t].outcome = "hit",
                 ![t].result = RetList(CachedSlice(popular_crypto_cache.data, req[t].top))]
    /\ UNCHANGED <<now, popular_stocks_cache, popular_crypto_cache, service, origin, nreq, call>>

\* What the thread does with data = self._make_request(...) (lines 59-82, 90).
CryptoAfterResponse(r, response) ==
    LET data == make_request(response)
        kind == IF response.kind # "http" THEN "exception"
                ELSE IF response.status # 200 THEN "non200"
                ELSE IF response.json = <<>> THEN "nomatch" ELSE "ok"
    IN  IF Truthy(data)
        THEN [r EXCEPT !.pc = "c_store_data", !.resp = kind,
                       !.fetched = CryptoRecords(data.items)]
        ELSE [r EXCEPT !.pc = "c_stale", !.resp = kind]

\* data = self._make_request('/coins/markets', params), params['per_page'] = top
CryptoResponse(t) ==
    /\ req[t].pc = "c_get"
    /\ \E response \in CryptoResponses(req[t].top) :
         req' = [req EXCEPT ![t] =
                   [CryptoAfterResponse(req[t], response) EXCEPT !.seq = NextSeq("crypto")]]
    /\ UNCHANGED <<now, popular_stocks_cache, popular_crypto_cache, service, origin, nreq, call>>

\* self._popular_crypto_cache['data'] = cryptos
CryptoStoreData(t) ==
    /\ req[t].pc = "c_store_data"
    /\ popular_crypto_cache' = StoreData(popular_crypto_cache, req[t].fetched)
    /\ origin' = [origin EXCEPT !.crypto.seq = req[t].seq, !.crypto.src = "fetch"]
    /\ req' = Goto(t, "c_store_ts")
    /\ UNCHANGED <<now, popular_stocks_cache, service, nreq, call>>

\* self._popular_crypto_cache['timestamp'] = time.time(); return cryptos
CryptoStoreTimestamp(t) ==
    /\ req[t].pc = "c_store_ts"
    /\ popular_crypto_cache' = StoreTimestamp(popular_crypto_cache, now)
    /\ req' = [req EXCEPT ![t].pc = "done", ![t].outcome = "fresh",
                 ![t].result = RetList(req[t].fetched)]
    /\ UNCHANGED <<now, popular_stocks_cache, service, nreq, call>>
    /\ origin' = [origin EXCEPT !.crypto.tseq = req[t].seq]

\* Mutant: the failed request gives up although the cache holds data.
StaleOrNoneGivesUp(r, cached) ==
    [r EXCEPT !.pc = "done", !.outcome = "none", !.prior = cached, !.result = RetNone]

\* The value of lines 91-95 for the cached data read there.
StaleOrNone(r, cached) ==
    IF Truthy(cached)
    THEN [r EXCEPT !.pc = "done", !.outcome = "stale", !.prior = cached,
                   !.result = RetList(CachedSlice(cached, r.top))]
    ELSE [r EXCEPT !.pc = "done", !.outcome = "none", !.prior = cached,
                   !.result = RetNone]

\* if self._popular_crypto_cache['data']: return ...['data'][:top]
\* return None
CryptoStale(t) ==
    /\ req[t].pc = "c_stale"
    /\ req' = [req EXCEPT ![t] = StaleOrNone(req[t], popular_crypto_cache.data)]
    /\ UNCHANGED <<now, popular_stocks_cache, popular_crypto_cache, service, origin, nreq, call>>

(* ------------------------------------------------------------------ *)
(* The system                                                          *)
(* ------------------------------------------------------------------ *)

\* The route has answered; the thread is free for the next request.
Finish(t) ==
    /\ req[t].pc = "done"
    /\ req' = [req EXCEPT ![t] = Idle]
    /\ UNCHANGED <<now, popular_stocks_cache, popular_crypto_cache, service, origin, nreq, call>>

\* Handing the value back to the route touches nothing shared, so a finished
\* request leaves before any other step is taken.
Running == \A t \in Threads : req[t].pc # "done"

Next ==
    \/ Running /\ Tick
    \/ Running /\ \E t \in Threads : StocksCall(t)
    \/ Running /\ \E t \in Threads : StocksTestData(t)
    \/ Running /\ \E t \in Threads : StocksTestAge(t)
    \/ Running /\ \E t \in Threads : StocksTestLen(t)
    \/ Running /\ \E t \in Threads : StocksHit(t)
    \/ Running /\ \E t \in Threads : StocksResponse(t)
    \/ Running /\ \E t \in Threads : StocksStoreData(t)
    \/ Running /\ \E t \in Threads : StocksStoreTimestamp(t)
    \/ Running /\ \E t \in Threads : StocksFallbackData(t)
    \/ Running /\ \E t \in Threads : StocksFallbackTimestamp(t)
    \/ Running /\ \E t \in Threads : CryptoCall(t)
    \/ Running /\ \E t \in Threads : CryptoTestData(t)
    \/ Running /\ \E t \in Threads : CryptoTestAge(t)
    \/ Running /\ \E t \in Threads : CryptoTestLen(t)
    \/ Running /\ \E t \in Threads : CryptoHit(t)
    \/ Running /\ \E t \in Threads : CryptoResponse(t)
    \/ Running /\ \E t \in Threads : CryptoStoreData(t)
    \/ Running /\ \E t \in Threads : CryptoStoreTimestamp(t)
    \/ Running /\ \E t \in Threads : CryptoStale(t)
    \/ \E t \in Threads : Finish(t)

Spec == Init /\ [][Next]_vars

(* ------------------------------------------------------------------ *)
(* Vocabulary of the properties                                        *)
(* ------------------------------------------------------------------ *)

TestPcs == {"s_data", "s_age", "s_len", "c_data", "c_age", "c_len"}
AgePcs == {"s_age", "c_age"}
LenPcs == {"s_len", "c_len"}
HitPcs == {"s_hit", "c_hit"}
GetPcs == {"s_get", "c_get"}
StoreDataPcs == {"s_store_data", "c_store_data"}
StoreTimestampPcs == {"s_store_ts", "c_store_ts"}
FallbackPcs == {"s_fb_data", "s_fb_ts"}
WritePcs == StoreDataPcs \cup StoreTimestampPcs \cup FallbackPcs

\* The cache the requests of this behaviour use, its TTL and its history.
Cache == IF service = "stocks" THEN popular_stocks_cache ELSE popular_crypto_cache
CacheNext == IF service = "stocks" THEN popular_stocks_cache' ELSE popular_crypto_cache'
TTL == IF service = "stocks" THEN 3600 ELSE 120
Origin == origin[service]

Age == now - Cache.timestamp
CachedLen == Len(Cache.data.items)

\* Thread t takes a step.
Steps(t) == req'[t] # req[t]

\* The first n items of s, written out.
FirstItems(s, n) == [i \in 1..(IF n < Len(s) THEN n ELSE Len(s)) |-> s[i]]

(* ------------------------------------------------------------------ *)
(* C1  Cache freshness                                                 *)
(* ------------------------------------------------------------------ *)

\* C1: for both caches, a step of the cache test of a request for N items,
\* taken while now - timestamp < TTL and the cached list holds at least N
\* items, never sends the request to the upstream.
C1_CacheFreshness ==
    [][\A t \in Threads :
         (/\ req[t].pc \in TestPcs
          /\ Cache.data.some
          /\ Age < TTL
          /\ CachedLen >= req[t].top)
         => req'[t].pc \notin GetPcs]_vars

\* A request for exactly as many items as a fresh entry holds was a hit.
C1_Witness ==
    \E t \in Threads :
        /\ req[t].pc = "done"
        /\ req[t].outcome = "hit"
        /\ Age < TTL
        /\ CachedLen = req[t].top
        /\ req[t].result = RetList(Cache.data.items)

(* ------------------------------------------------------------------ *)
(* C2  Cache sufficiency                                               *)
(* ------------------------------------------------------------------ *)

\* C2: for both caches, while the cached list is shorter than the N items a
\* request asks for, no step of its cache test leads to the hit, and the
\* length test sends it to the upstream, expired or not.
C2_CacheSufficiency ==
    [][\A t \in Threads :
         (req[t].pc \in TestPcs /\ CachedLen < req[t].top /\ Steps(t))
         => /\ req'[t].pc \notin HitPcs
            /\ req[t].pc \in LenPcs => req'[t].pc \in GetPcs]_vars

\* A request is at the upstream because the entry, not expired, was too short.
C2_Witness ==
    \E t \in Threads :
        /\ req[t].pc \in GetPcs
        /\ req[t].why = "short"
        /\ Cache.data.some
        /\ CachedLen > 0
        /\ CachedLen < req[t].top
        /\ Age < TTL

(* ------------------------------------------------------------------ *)
(* C3  Cache expiry and lazy refresh                                   *)
(* ------------------------------------------------------------------ *)

\* C3: (a) the age test at age >= TTL sends the request to the upstream, and a
\* request reaches the hit only through tests passed; (b) the cache is written
\* only by a step of a request that is storing what the upstream answered, in
\* particular never by the passing of time; (c) the cache starts empty, and no
\* request is a hit before an upstream answer has been stored.
C3_StepRule ==
    /\ \A t \in Threads :
         (req[t].pc \in AgePcs /\ Age >= TTL /\ Steps(t)) => req'[t].pc \in GetPcs
    /\ \A t \in Threads :
         (req'[t].pc \in HitPcs /\ Steps(t)) => (req[t].pc \in LenPcs /\ req[t].why = "none")
    /\ (popular_stocks_cache' # popular_stocks_cache
          \/ popular_crypto_cache' # popular_crypto_cache
          \/ origin' # origin)
         => /\ now' = now
            /\ \E t \in Threads : req[t].pc \in WritePcs /\ Steps(t) /\ req[t].resp # "none"

C3_StateRule ==
    /\ Origin.src = "none" => Cache = EmptyCache
    /\ \A t \in Threads : req[t].outcome = "hit" => Origin.src # "none"
    /\ \A t \in Threads : req[t].pc \in WritePcs => req[t].resp # "none"

C3_ExpiryAndLazyRefresh == [][C3_StepRule]_vars /\ []C3_StateRule

\* A request is at the upstream because the entry was exactly TTL old.
C3_Witness ==
    \E t \in Threads :
        /\ req[t].pc \in GetPcs
        /\ req[t].why = "expired"
        /\ Age = TTL
        /\ CachedLen >= req[t].top

(* ------------------------------------------------------------------ *)
(* C4  Stale fallback                                                  *)
(* ------------------------------------------------------------------ *)

\* The request's upstream fetch failed.
FetchFailed(t) == req[t].resp \in {"exception", "non200", "nomatch"}

C5_StaticFallback ==
    \A t \in Threads :
        (/\ service = "stocks"
         /\ req[t].pc = "done"
         /\ req[t].resp \in {"exception", "non200"}
         /\ DEFAULT_TOP_STOCKS_LIST # <<>>)
        => /\ req[t].outcome = "static"
           /\ req[t].result = RetList(DEFAULT_TOP_STOCKS_LIST)
           /\ Origin.src # "none"

(* ------------------------------------------------------------------ *)
(* C6  Malformed scrape                                                *)
(* ------------------------------------------------------------------ *)

\* C6: an equities request whose page came with status 200 and no
\* '.company-code' element ended as one whose fetch timed out does: with the
\* static list.
C6_MalformedScrapeFallsBack ==
    \A t \in Threads :
        (service = "stocks" /\ req[t].pc = "done" /\ req[t].resp = "nomatch")
        => /\ req[t].outcome = "static"
           /\ req[t].result = RetList(DEFAULT_TOP_STOCKS_LIST)

(* ------------------------------------------------------------------ *)
(* C7  Wholesale overwrite on success                                  *)
(* ------------------------------------------------------------------ *)

\* The non-empty texts among the first n elements of a page.
IsText(x) == x # ""
TextsOfFirst(page, n) == SelectSeq(FirstItems(page, n), IsText)

\* The list is what some upstream answer gives for a request for n items.
FromUpstream(list, n) ==
    IF service = "stocks"
    THEN \E page \in StockPages : list = TextsOfFirst(page, n)
    ELSE \E m \in Markets :
            /\ Len(list) = Len(FirstItems(m, n))
            /\ \A i \in 1..Len(list) : list[i].id = m[i].id

\* C7: the step that stores the data of a successful fetch makes the cached
\* data exactly the list built from the upstream answer, which holds at most N
\* items and nothing of the previous entry; the step that follows sets the
\* timestamp to the current time, leaves the data alone and returns that list.
C7_StepRule ==
    \A t \in Threads :
        /\ (req[t].pc \in StoreDataPcs /\ Steps(t))
           => /\ CacheNext.data = List(req[t].fetched)
              /\ CacheNext.timestamp = Cache.timestamp
              /\ FromUpstream(req[t].fetched, req[t].top)
              /\ Len(req[t].fetched) <= req[t].top
        /\ (req[t].pc \in StoreTimestampPcs /\ Steps(t))
           => /\ CacheNext.timestamp = now
              /\ CacheNext.data = Cache.data
              /\ req'[t].result = RetList(req[t].fetched)
              /\ req'[t].outcome = "fresh"

C7_WholesaleOverwrite == [][C7_StepRule]_vars

\* A request that missed an entry of other content ended with the fetched list
\* as the cache entry, stamped now.
C7_Witness ==
    \E t \in Threads :
        /\ req[t].pc = "done"
        /\ req[t].outcome = "fresh"
        /\ req[t].why \in {"expired", "short"}
        /\ req[t].result.items # <<>>
        /\ Cache.data = List(req[t].result.items)
        /\ Cache.timestamp = now
        /\ now > 0

(* ------------------------------------------------------------------ *)
(* C8  Stable prefix on hit                                            *)
(* ------------------------------------------------------------------ *)

\* C8: the step that serves a hit returns the first N items of the stored
\* list, in stored order, and changes neither cache.
C8_StepRule ==
    \A t \in Threads :
        (req[t].pc \in HitPcs /\ Steps(t))
        => /\ req'[t].result = RetList(FirstItems(Cache.data.items, req[t].top))
           /\ req'[t].outcome = "hit"
           /\ popular_stocks_cache' = popular_stocks_cache
           /\ popular_crypto_cache' = popular_crypto_cache
           /\ origin' = origin

C8_StablePrefixOnHit == [][C8_StepRule]_vars

\* [NVDA, AAPL, GOOG] was stored; a request for 2 one second later got
\* [NVDA, AAPL], and the entry is as it was stored.
C8_Witness ==
    \E t \in Threads :
        /\ service = "stocks"
        /\ req[t].pc = "done"
        /\ req[t].outcome = "hit"
        /\ req[t].top = 2
        /\ req[t].result = RetList(<<"NVDA", "AAPL">>)
        /\ popular_stocks_cache.data = List(<<"NVDA", "AAPL", "GOOG">>)
        /\ now - popular_stocks_cache.timestamp = 1

(* ------------------------------------------------------------------ *)
(* C9  Serialized refresh                                              *)
(* ------------------------------------------------------------------ *)

\* A request past its cache test and not yet back: it has issued the upstream
\* fetch and may still write the cache.
Refreshing(t) == req[t].pc \in GetPcs \cup WritePcs \cup {"c_stale"}

\* C9: of the requests running against one cache, at most one at a time is
\* between the failed cache test and the end of its overwrite.
C9_SerializedRefresh ==
    \A t1, t2 \in Threads : (Refreshing(t1) /\ Refreshing(t2)) => t1 = t2

(* ------------------------------------------------------------------ *)
(* C10  No stale clobber                                               *)
(* ------------------------------------------------------------------ *)

\* C10: no write of cached data replaces data of a later upstream answer by
\* data (or the static list) of an earlier one.
C10_StepRule ==
    \A t \in Threads :
        (req[t].pc \in StoreDataPcs \cup {"s_fb_data"} /\ Steps(t) /\ Origin.src = "fetch")
        => req[t].seq >= Origin.seq

C10_NoStaleClobber == [][C10_StepRule]_vars

(* ------------------------------------------------------------------ *)
(* Stateless service methods                                           *)
(*   One call per behaviour: the argument is drawn from a bounded set, *)
(*   the method is applied, and call records both.  The caches are not *)
(*   touched.                                                          *)
(* ------------------------------------------------------------------ *)

\* The state before the call.
MethodInit == Init /\ service = "crypto"

\* The method fn, called with arg, returned ret.
Returns(fn, arg, ret) ==
    /\ call' = [fn |-> fn, arg |-> arg, ret |-> ret]
    /\ UNCHANGED <<now, popular_stocks_cache, popular_crypto_cache, req, service, origin, nreq>>

(* ---- CryptoService._make_request ---- *)

\* Outcomes of requests.get for any endpoint: no answer, an answer of some
\* status with a JSON body, or a 200 whose body does not parse.
AnyResponses ==
    { [kind |-> "timeout", status |-> 0, json |-> <<>>],
      [kind |-> "connerr", status |-> 0, json |-> <<>>],
      [kind |-> "badjson", status |-> 200, json |-> <<>>] }
    \cup { [kind |-> "http", status |-> s, json |-> m] :
             s \in {200, 201, 404, 429, 500}, m \in Markets }

CallMakeRequest ==
    /\ call = NoCall
    /\ \E response \in AnyResponses :
        Returns("_make_request", response, make_request(response))

\* C11: _make_request returns the parsed payload exactly when the answer is
\* an HTTP 200 whose body parses, and None for a timeout, a connection error,
\* a 429 and every other status; what it gives back is always a value (None
\* or the payload), never an exception of the transport.
C11_MakeRequestTotal ==
    call.fn = "_make_request" =>
        LET response == call.arg
            ok == response.kind = "http" /\ response.status = 200
        IN  /\ call.ret \in {None} \cup {List(m) : m \in Markets}
            /\ call.ret.some <=> ok
            /\ ok => call.ret = List(response.json)
            /\ ~ok => call.ret = None

\* A 429 that carries a body gives None.
C11_Witness ==
    /\ call.fn = "_make_request"
    /\ call.arg.kind = "http" /\ call.arg.status = 429 /\ call.arg.json # <<>>
    /\ call.ret = None

(* ---- The payload of yfinance's Ticker.info ---- *)

\* A value of the info dictionary under one key: the key is missing, its
\* value is None, or it is a number or a string.  Prices are in thousandths.
Missing == [t |-> "missing", v |-> 0]
Null == [t |-> "null", v |-> 0]
Num(n) == [t |-> "num", v |-> n]
Str(s) == [t |-> "str", v |-> s]

\* Python truthiness of info.get(key)
PyTrue(c) == (c.t = "num" /\ c.v # 0) \/ (c.t = "str" /\ c.v # "")

\* info.get(key, default)
GetOr(c, default) == IF c.t = "missing" THEN default ELSE c

\* a or b
PyOr(a, b) == IF PyTrue(a) THEN a ELSE b

\* Config.US_EXCHANGES, Config.EU_EXCHANGES
US_EXCHANGES == {"NYQ", "NAS", "NMS", "ASE", "PCX", "BATS", "ARCX"}
EU_EXCHANGES ==
    {"AMS", "XETRA", "FRA", "PAR", "LSE", "SWX", "VIE", "MIL", "BRU", "STO", "CPH", "HEL", "MCE"}

\* The info dictionaries the model feeds get_stock_data.
StockInfos ==
    [regularMarketPrice : {Missing, Null, Num(0), Num(110000)},
     currentPrice : {Missing, Num(12345)},
     previousClose : {Missing, Null, Num(0), Num(100000)},
     exchange : {Missing, Null, Str("nms"), Str("XETRA"), Str("TYO")},
     currency : {Missing, Str("GBP")},
     longName : {Missing, Str("Apple Inc.")},
     volume : {Num(52000)},
     marketCap : {Missing},
     dayHigh : {Num(111555)},
     dayLow : {Num(99125)},
     fiftyTwoWeekHigh : {Num(130000)},
     fiftyTwoWeekLow : {Missing},
     open : {Num(100500)},
     averageVolume : {Num(48000)},
     trailingPE : {Missing, Num(0), Num(28456)},
     trailingEps : {Missing, Num(6135)},
     dividendYield : {Missing, Num(5)},
     beta : {Missing, Num(1286)},
     sector : {Missing, Null, Str("Technology")},
     industry : {Missing, Str("Consumer Electronics")},
     website : {Missing},
     longBusinessSummary : {Str("Apple Inc. designs smartphones.")}]

\* What a normalizer returns: None or a record.
NoRecord == [some |-> FALSE]
Rec(r) == [some |-> TRUE, rec |-> r]

\* round(n / d, 2) for d > 0, n and the result in hundredths, ties to even.
RoundRatio(n, d) ==
    LET q == n \div d
        r == n % d
    IN  IF 2 * r < d THEN q
        ELSE IF 2 * r > d THEN q + 1
        ELSE IF q % 2 = 0 THEN q ELSE q + 1

(* ---- StockService.get_stock_data ---- *)

\* Mutants of the parts of get_stock_data.
ChangePercentUnguarded(change, previous_close) ==
    RoundRatio(change * 10000, IF previous_close # 0 THEN previous_close ELSE 1)
DetectMarketNoEU(exchange) == IF exchange \in US_EXCHANGES THEN "US" ELSE "OTHER"
FullRecordExtensionOnly(basic_data, extension) == extension
OrNAZero(c, value) == IF PyTrue(c) THEN Num(value) ELSE Num(0)

\* round(float((change / previous_close) * 100 if previous_close else 0), 2)
ChangePercent(change, previous_close) ==
    IF previous_close # 0 THEN RoundRatio(change * 10000, previous_close) ELSE 0

\* The market of an upper-cased exchange code.
DetectMarket(exchange) ==
    IF exchange \in US_EXCHANGES THEN "US"
    ELSE IF exchange \in EU_EXCHANGES THEN "EU"
    ELSE "OTHER"

\* full_data_dict = basic_data.copy(); full_data_dict.update(extension)
FullRecord(basic_data, extension) == extension @@ basic_data

\* value if info.get(key) else 'N/A'
OrNA(c, value) == IF PyTrue(c) THEN Num(value) ELSE Str("N/A")

\* get_stock_data(symbol, full_data) when Ticker(symbol).info is info.  Where
\* the code applies .upper() or arithmetic to None the exception is caught by
\* the except clause, which returns None.
get_stock_data(symbol, full_data, info) ==
    LET current_price == PyOr(GetOr(info.regularMarketPrice, Null), GetOr(info.currentPrice, Null))
        exchange_raw == GetOr(info.exchange, Str(""))
        previous_close == GetOr(info.previousClose, current_price)
    IN  IF ~PyTrue(current_price) THEN NoRecord
        ELSE IF exchange_raw.t # "str" THEN NoRecord
        ELSE IF previous_close.t # "num" THEN NoRecord
        ELSE
        LET exchange == Upper(exchange_raw.v)
            market == DetectMarket(exchange)
            currency == IF market = "US" THEN Str("USD")
                        ELSE IF market = "EU" THEN GetOr(info.currency, Str("EUR"))
                        ELSE GetOr(info.currency, Str("USD"))
            change == current_price.v - previous_close.v
            basic_data ==
                [symbol |-> symbol,
                 name |-> PyOr(GetOr(info.longName, Null), Str(symbol)),
                 price |-> Round2(current_price.v),
                 change |-> Round2(change),
                 changePercent |-> ChangePercent(change, previous_close.v),
                 volume |-> GetOr(info.volume, Num(0)),
                 marketCap |-> GetOr(info.marketCap, Num(0)),
                 market |-> market,
                 currency |-> currency,
                 dayHigh |-> Round2(GetOr(info.dayHigh, Num(0)).v),
                 dayLow |-> Round2(GetOr(info.dayLow, Num(0)).v),
                 fiftyTwoWeekHigh |-> Round2(GetOr(info.fiftyTwoWeekHigh, Num(0)).v),
                 fiftyTwoWeekLow |-> Round2(GetOr(info.fiftyTwoWeekLow, Num(0)).v)]
            extension ==
                [previousClose |-> Round2(previous_close.v),
                 openPrice |-> Round2(GetOr(info.open, Num(0)).v),
                 avgVolume |-> GetOr(info.averageVolume, Num(0)),
                 peRatio |-> OrNA(info.trailingPE, Round2(info.trailingPE.v)),
                 eps |-> OrNA(info.trailingEps, Round2(info.trailingEps.v)),
                 dividendYield |-> OrNA(info.dividendYield, Round2(info.dividendYield.v * 100)),
                 beta |-> OrNA(info.beta, Round2(info.beta.v)),
                 exchange |-> exchange,
                 sector |-> GetOr(info.sector, Str("N/A")),
                 industry |-> GetOr(info.industry, Str("N/A")),
                 website |-> GetOr(info.website, Str("")),
                 businessSummary |-> GetOr(info.longBusinessSummary, Str(""))]
        IN  IF ~full_data THEN Rec(basic_data) ELSE Rec(FullRecord(basic_data, extension))

CallGetStockData ==
    /\ call = NoCall
    /\ \E full_data \in BOOLEAN, info \in StockInfos :
        Returns("get_stock_data",
                [symbol |-> "AAPL", full_data |-> full_data, info |-> info],
                get_stock_data("AAPL", full_data, info))

\* The price get_stock_data works with, and whether the payload has one.
PriceOf(info) == PyOr(GetOr(info.regularMarketPrice, Null), GetOr(info.currentPrice, Null))
HasPrice(info) == PyTrue(PriceOf(info))

C14_MarketClassification ==
    (call.fn = "get_stock_data" /\ call.ret.some)
    => LET info == call.arg.info
           code == IF info.exchange.t = "str" THEN Upper(info.exchange.v) ELSE ""
           record == call.ret.rec
       IN  /\ record.market \in {"US", "EU", "OTHER"}
           /\ record.market = "US" <=> code \in US_EXCHANGES
           /\ record.market = "EU" <=> code \in EU_EXCHANGES
           /\ record.market = "OTHER" <=> code \notin US_EXCHANGES \cup EU_EXCHANGES
           /\ info.exchange.t = "missing" => record.market = "OTHER"
           /\ record.market = "US" => record.currency = Str("USD")
           /\ record.market = "EU" =>
                record.currency = IF info.currency.t = "missing" THEN Str("EUR") ELSE info.currency
           /\ record.market = "OTHER" =>
                record.currency = IF info.currency.t = "missing" THEN Str("USD") ELSE info.currency

\* The lower-case code of a US exchange with an upstream currency of GBP gave
\* a US record in USD.
C14_Witness ==
    /\ call.fn = "get_stock_data"
    /\ call.arg.info.exchange = Str("nms")
    /\ call.arg.info.currency = Str("GBP")
    /\ call.ret.some
    /\ call.ret.rec.market = "US"
    /\ call.ret.rec.currency = Str("USD")

(* ---- CryptoService.get_crypto_data ---- *)

\* A nested object of the payload, as the value under its one key that the
\* code reads ('usd', 'large', 'en', 'homepage'), and a list.
Dict(c) == [t |-> "dict", v |-> c]
ListOf(q) == [t |-> "list", v |-> q]

\* data['market_data'] of the /coins/{id} payload.
MarketDatas ==
    [current_price : {Missing, Null, Dict(Missing), Dict(Null), Dict(Num(0)), Dict(Num(67123456))},
     price_change_24h : {Missing, Null, Num(-1234567)},
     price_change_percentage_24h : {Num(-1805)},
     market_cap : {Dict(Num(1300000))},
     total_volume : {Missing, Dict(Num(35000))},
     high_24h : {Dict(Num(68000000))},
     low_24h : {Dict(Missing)},
     circulating_supply : {Num(19000)},
     total_supply : {Missing},
     max_supply : {Missing, Num(21000)},
     ath : {Dict(Num(73000000))},
     ath_change_percentage : {Dict(Num(-8049)), Dict(Null)},
     ath_date : {Dict(Str("2024-03-14"))},
     atl : {Dict(Num(67810))},
     atl_change_percentage : {Missing},
     atl_date : {Missing},
     price_change_percentage_7d : {Num(4001)},
     price_change_percentage_30d : {Null},
     price_change_percentage_1y : {Missing}]

\* market_data = data.get('market_data', {}) when the key is missing
EmptyMarketData == [k \in DOMAIN CHOOSE m \in MarketDatas : TRUE |-> Missing]

\* The /coins/{id} payloads: {} is the payload whose every key is missing.
CoinPayloads ==
    [id : {Str("bitcoin")},
     symbol : {Missing, Str("btc")},
     name : {Str("Bitcoin")},
     market_data : {Missing, Null} \cup {Dict(m) : m \in MarketDatas},
     image : {Missing, Dict(Str("btc.png"))},
     market_cap_rank : {Missing, Num(1)},
     description : {Dict(Str("Bitcoin is a cryptocurrency."))},
     links : {Missing, Dict(ListOf(<<"https://bitcoin.org">>)), Dict(ListOf(<<>>))},
     genesis_date : {Str("2009-01-03")},
     categories : {Missing, ListOf(<<"Layer 1 (L1)">>)}]
EmptyPayload == [k \in DOMAIN CHOOSE c \in CoinPayloads : TRUE |-> Missing]

\* Outcomes of requests.get for /coins/{id}.
CoinResponses ==
    { [kind |-> "timeout", status |-> 0, json |-> EmptyPayload],
      [kind |-> "http", status |-> 429, json |-> EmptyPayload],
      [kind |-> "http", status |-> 404, json |-> EmptyPayload],
      [kind |-> "http", status |-> 200, json |-> EmptyPayload] }
    \cup { [kind |-> "http", status |-> 200, json |-> c] : c \in CoinPayloads }

\* not data, for a dictionary
IsEmptyDict(d) == \A k \in DOMAIN d : d[k].t = "missing"

\* An exception leaves the method.
Raise == [some |-> FALSE, raises |-> TRUE]

\* obj.get(key, {}).get(inner, default): c is the value under key.  When that
\* value is neither missing nor an object, .get on it raises.
Sub(c, default) == IF c.t = "dict" THEN GetOr(c.v, default) ELSE default
BadSub(c) == c.t \notin {"missing", "dict"}

\* round(x or 0, 2)
RoundOr0(c) == Round2(IF PyTrue(c) THEN c.v ELSE 0)

\* get_crypto_data(crypto_id, full_data) when requests.get gives response.
\* The method has no try block: .get or .upper() on None and [0] on an empty
\* list raise out of it.
get_crypto_data(crypto_id, full_data, response) ==
    LET data == make_request(response)
    IN  IF ~data.some \/ IsEmptyDict(data.items) THEN NoRecord
        ELSE
        LET d == data.items
            market_data == IF d.market_data.t = "dict" THEN d.market_data.v ELSE EmptyMarketData
            symbol == GetOr(d.symbol, Str(""))
            basic_raises ==
                \/ BadSub(d.market_data)
                \/ \E k \in {"current_price", "market_cap", "total_volume", "high_24h", "low_24h"} :
                       BadSub(market_data[k])
                \/ symbol.t # "str"
                \/ BadSub(d.image)
            full_raises ==
                \/ \E k \in {"ath", "ath_change_percentage", "ath_date", "atl",
                             "atl_change_percentage", "atl_date"} : BadSub(market_data[k])
                \/ BadSub(d.description)
                \/ BadSub(d.links)
                \/ Sub(d.links, ListOf(<<"None">>)).v = <<>>
            basic_data ==
                [id |-> GetOr(d.id, Null),
                 symbol |-> Upper(symbol.v),
                 name |-> GetOr(d.name, Null),
                 price |-> Sub(market_data.current_price, Num(0)),
                 change |-> RoundOr0(GetOr(market_data.price_change_24h, Num(0))),
                 changePercent |-> RoundOr0(GetOr(market_data.price_change_percentage_24h, Num(0))),
                 marketCap |-> Sub(market_data.market_cap, Num(0)),
                 volume |-> Sub(market_data.total_volume, Num(0)),
                 image |-> Sub(d.image, Null),
                 rank |-> GetOr(d.market_cap_rank, Null),
                 high24h |-> Sub(market_data.high_24h, Num(0)),
                 low24h |-> Sub(market_data.low_24h, Num(0))]
            extension ==
                [circulatingSupply |-> GetOr(market_data.circulating_supply, Num(0)),
                 totalSupply |-> GetOr(market_data.total_supply, Num(0)),
                 maxSupply |-> GetOr(market_data.max_supply, Null),
                 ath |-> Sub(market_data.ath, Num(0)),
                 athChangePercent |-> RoundOr0(Sub(market_data.ath_change_percentage, Num(0))),
                 athDate |-> Sub(market_data.ath_date, Null),
                 atl |-> Sub(market_data.atl, Num(0)),
                 atlChangePercent |-> RoundOr0(Sub(market_data.atl_change_percentage, Num(0))),
                 atlDate |-> Sub(market_data.atl_date, Null),
                 changePercent7d |-> RoundOr0(GetOr(market_data.price_change_percentage_7d, Num(0))),
                 changePercent30d |-> RoundOr0(GetOr(market_data.price_change_percentage_30d, Num(0))),
                 changePercent1y |-> RoundOr0(GetOr(market_data.price_change_percentage_1y, Num(0))),
                 description |-> Sub(d.description, Str("")),
                 homepage |-> Head(Sub(d.links, ListOf(<<"None">>)).v),
                 genesisDate |-> GetOr(d.genesis_date, Null),
                 categories |-> GetOr(d.categories, ListOf(<<>>))]
        IN  IF basic_raises THEN Raise
            ELSE IF ~full_data THEN Rec(basic_data)
            ELSE IF full_raises THEN Raise
            ELSE Rec(FullRecord(basic_data, extension))

CallGetCryptoData ==
    /\ call = NoCall
    /\ \E full_data \in BOOLEAN, response \in CoinResponses :
        Returns("get_crypto_data",
                [crypto_id |-> "bitcoin", full_data |-> full_data, response |-> response],
                get_crypto_data("bitcoin", full_data, response))

\* The payload a response delivers has no usable price in US dollars.
CoinHasPrice(d) ==
    /\ d.market_data.t = "dict"
    /\ d.market_data.v.current_price.t = "dict"
    /\ PyTrue(d.market_data.v.current_price.v)

\* C13: both normalizers return None whenever the upstream payload carries no
\* usable current price, be it missing, null or zero.
C13_RequiredPrice ==
    /\ (call.fn = "get_stock_data" /\ ~HasPrice(call.arg.info))
         => call.ret = NoRecord
    /\ (call.fn = "get_crypto_data" /\ ~CoinHasPrice(call.arg.response.json))
         => call.ret = NoRecord

(* ---- Basic and full records ---- *)

\* The keys of basic_data and of the update of full_data_dict.
StockBasicFields ==
    {"symbol", "name", "price", "change", "changePercent", "volume", "marketCap",
     "market", "currency", "dayHigh", "dayLow", "fiftyTwoWeekHigh", "fiftyTwoWeekLow"}
StockExtensionFields ==
    {"previousClose", "openPrice", "avgVolume", "peRatio", "eps", "dividendYield",
     "beta", "exchange", "sector", "industry", "website", "businessSummary"}
CryptoBasicFields ==
    {"id", "symbol", "name", "price", "change", "changePercent", "marketCap",
     "volume", "image", "rank", "high24h", "low24h"}
CryptoExtensionFields ==
    {"circulatingSupply", "totalSupply", "maxSupply", "ath", "athChangePercent",
     "athDate", "atl", "atlChangePercent", "atlDate", "changePercent7d",
     "changePercent30d", "changePercent1y", "description", "homepage",
     "genesisDate", "categories"}

\* The record the same call gives when full_data is False.
BasicOfCall ==
    IF call.fn = "get_stock_data"
    THEN get_stock_data(call.arg.symbol, FALSE, call.arg.info)
    ELSE get_crypto_data(call.arg.crypto_id, FALSE, call.arg.response)

\* C15: a record returned with full_data False has exactly the basic fields
\* (for a coin: no description, no categories); a record returned with
\* full_data True has every basic field, with the value the basic record
\* has for the same payload, and the extension fields besides.  This holds
\* for get_stock_data and for get_crypto_data.
C15_BasicVsFull ==
    (call.fn \in {"get_stock_data", "get_crypto_data"} /\ call.ret.some)
    => LET record == call.ret.rec
           basic == IF call.fn = "get_stock_data" THEN StockBasicFields ELSE CryptoBasicFields
           extension == IF call.fn = "get_stock_data" THEN StockExtensionFields
                        ELSE CryptoExtensionFields
       IN  /\ basic \cap extension = {}
           /\ ~call.arg.full_data => DOMAIN record = basic
           /\ call.arg.full_data =>
                /\ DOMAIN record = basic \cup extension
                /\ BasicOfCall.some
                /\ \A k \in basic : record[k] = BasicOfCall.rec[k]

\* A full coin record with a description, whose price is that of the payload.
C15_Witness ==
    /\ call.fn = "get_crypto_data"
    /\ call.arg.full_data
    /\ call.ret.some
    /\ call.ret.rec.description = Str("Bitcoin is a cryptocurrency.")
    /\ call.ret.rec.price = Num(67123456)

(* ---- Optional extension fields of get_stock_data ---- *)

\* The optional extension fields: the key of the payload and the field of the
\* record made from it.
OptionalFields ==
    { <<"trailingPE", "peRatio">>, <<"trailingEps", "eps">>,
      <<"dividendYield", "dividendYield">>, <<"beta", "beta">>,
      <<"sector", "sector">>, <<"industry", "industry">> }

\* C16: when get_stock_data is called with full_data True on a payload with a
\* usable price (and an exchange code and previous close that are not null),
\* a record is returned; each optional extension field whose key the payload
\* lacks is "N/A" in it, and taking the key of one optional field away from
\* the payload changes that field to "N/A" and no other field.
C16_PartialFieldFailure ==
    (/\ call.fn = "get_stock_data"
     /\ call.arg.full_data
     /\ HasPrice(call.arg.info)
     /\ call.arg.info.exchange.t # "null"
     /\ call.arg.info.previousClose.t # "null")
    => /\ call.ret.some
       /\ \A f \in OptionalFields :
            LET info == call.arg.info
                without == [info EXCEPT ![f[1]] = Missing]
            IN  /\ info[f[1]].t = "missing" => call.ret.rec[f[2]] = Str("N/A")
                /\ get_stock_data(call.arg.symbol, TRUE, without)
                     = Rec([call.ret.rec EXCEPT ![f[2]] = Str("N/A")])

\* The payload lacks trailingPE alone of the ratios: peRatio is "N/A" and
\* beta, eps and the dividend yield carry their values.
C16_Witness ==
    /\ call.fn = "get_stock_data"
    /\ call.arg.full_data
    /\ call.arg.info.trailingPE = Missing
    /\ call.arg.info.beta = Num(1286)
    /\ call.ret.some
    /\ call.ret.rec.peRatio = Str("N/A")
    /\ call.ret.rec.beta = Num(129)
    /\ call.ret.rec.eps = Num(614)
    /\ call.ret.rec.dividendYield = Num(50)
    /\ call.ret.rec.sector = Str("Technology")

(* ---- CryptoService.search_crypto and get_crypto_by_symbol ---- *)

\* for coin in data['coins'][:10]
SEARCH_LIMIT == 10

\* The id of the coin at place i of an upstream search listing.
CoinId(i) ==
    <<"coin-01", "coin-02", "coin-03", "coin-04", "coin-05", "coin-06", "coin-07",
      "coin-08", "coin-09", "coin-10", "coin-11", "coin-12", "coin-13">>[i]

\* An upstream listing of n coins whose symbol is btc at the places in at and
\* eth elsewhere.
SearchListing(n, at) ==
    [i \in 1..n |-> [id |-> CoinId(i), symbol |-> IF i \in at THEN "btc" ELSE "eth"]]

\* Outcomes of requests.get for /search: no answer, a 429, a payload without
\* 'coins', or a listing with at most two coins of the symbol searched for.
SearchResponses ==
    { [kind |-> "timeout", status |-> 0, json |-> [coins |-> Missing]],
      [kind |-> "http", status |-> 429, json |-> [coins |-> Missing]],
      [kind |-> "http", status |-> 200, json |-> [coins |-> Missing]] }
    \cup { [kind |-> "http", status |-> 200, json |-> [coins |-> ListOf(SearchListing(n, at))]] :
             n \in 0..MaxResults,
             at \in {a \in SUBSET (1..MaxResults) : Cardinality(a) <= 2} }

\* Mutant of the limit of search_crypto: every coin is kept.
LimitedAll(coins) == coins

\* data['coins'][:10]
Limited(coins) == Prefix(coins, SEARCH_LIMIT)

\* search_crypto(query) when requests.get gives response
search_crypto(query, response) ==
    LET data == make_request(response)
    IN  IF ~data.some \/ data.items.coins.t = "missing" THEN <<>>
        ELSE LET coins == Limited(data.items.coins.v)
             IN  [i \in 1..Len(coins) |->
                    [id |-> coins[i].id, symbol |-> Upper(coins[i].symbol)]]

\* What get_crypto_by_symbol returns: None, or the result of
\* get_crypto_data(id) for the id it settles on.
NoFetch == [some |-> FALSE, id |-> ""]
Fetch(id) == [some |-> TRUE, id |-> id]

RECURSIVE ExactMatch(_, _)
\* for result in search_results: if result['symbol'].upper() == symbol.upper():
\*     return self.get_crypto_data(result['id'])
ExactMatch(search_results, symbol) ==
    IF search_results = <<>> THEN NoFetch
    ELSE IF Upper(Head(search_results).symbol) = Upper(symbol)
         THEN Fetch(Head(search_results).id)
         ELSE ExactMatch(Tail(search_results), symbol)

get_crypto_by_symbol(symbol, response) ==
    LET search_results == search_crypto(symbol, response)
    IN  IF search_results = <<>> THEN NoFetch
        ELSE IF ExactMatch(search_results, symbol).some
             THEN ExactMatch(search_results, symbol)
             ELSE Fetch(search_results[1].id)

CallGetCryptoBySymbol ==
    /\ call = NoCall
    /\ \E symbol \in {"btc", "BTC"}, response \in SearchResponses :
        Returns("get_crypto_by_symbol",
                [symbol |-> symbol, response |-> response],
                get_crypto_by_symbol(symbol, response))

\* The coins the upstream search listed for the call (none when it failed).
UpstreamCoins ==
    LET response == call.arg.response
    IN  IF response.kind = "http" /\ response.status = 200 /\ response.json.coins.t = "list"
        THEN response.json.coins.v ELSE <<>>

\* The places among the first n upstream coins whose symbol is the one
\* searched for, letter case aside.
MatchesAmong(n) ==
    {i \in 1..Min(n, Len(UpstreamCoins)) :
        Upper(UpstreamCoins[i].symbol) = Upper(call.arg.symbol)}

\* The lookup settles on the first match among the first n upstream coins, on
\* the first coin when none of them matches, and on nothing when the search
\* lists no coin.
LookupAmong(n) ==
    IF UpstreamCoins = <<>> THEN call.ret = NoFetch
    ELSE IF MatchesAmong(n) # {}
         THEN call.ret = Fetch(UpstreamCoins[CHOOSE i \in MatchesAmong(n) :
                                    \A j \in MatchesAmong(n) : i <= j].id)
         ELSE call.ret = Fetch(UpstreamCoins[1].id)

\* C17 as stated: get_crypto_by_symbol returns None when the upstream search
\* yields no results; otherwise it fetches the first upstream search result
\* whose symbol matches exactly (case-insensitively), and the first search
\* result only when no upstream result matches.
C17_LookupAnyUpstreamResult ==
    call.fn = "get_crypto_by_symbol" => LookupAmong(Len(UpstreamCoins))

\* C17 amended: the same, with the match sought among the first ten upstream
\* results only; a match further down the listing is not seen and the first
\* result is fetched.
C17_LookupFirstTen ==
    call.fn = "get_crypto_by_symbol" => LookupAmong(SEARCH_LIMIT)

\* Eleven coins listed, the only match at place eleven: the first is fetched.
C17_Witness ==
    /\ call.fn = "get_crypto_by_symbol"
    /\ Len(UpstreamCoins) = SEARCH_LIMIT + 1
    /\ MatchesAmong(Len(UpstreamCoins)) = {SEARCH_LIMIT + 1}
    /\ call.ret = Fetch(CoinId(1))

(* ---- CryptoService.get_historical_data ---- *)

\* Point i of the upstream arrays: [timestamp in ms, value in thousandths].
\* Point 2 has price 0 and point 1 volume 0, which the code treats as falsy.
PricePoint(i) == <<86400000 * i + 1500, IF i = 2 THEN 0 ELSE 67000000 + 1235 * i>>
VolumePoint(i) == <<86400000 * i + 1500, IF i = 1 THEN 0 ELSE 35000000 + 1700 * i>>

\* The /coins/{id}/market_chart payloads: P prices and V volumes, either key
\* possibly missing; {} is the payload without any key.
MarketCharts ==
    [prices : {Missing} \cup {ListOf([i \in 1..P |-> PricePoint(i)]) : P \in 0..MaxPoints},
     total_volumes : {Missing} \cup {ListOf([i \in 1..V |-> VolumePoint(i)]) : V \in 0..MaxPoints},
     market_caps : {Missing, ListOf(<<>>)}]

ChartResponses ==
    { [kind |-> "timeout", status |-> 0, json |-> CHOOSE c \in MarketCharts : IsEmptyDict(c)],
      [kind |-> "http", status |-> 429, json |-> CHOOSE c \in MarketCharts : IsEmptyDict(c)] }
    \cup { [kind |-> "http", status |-> 200, json |-> c] : c \in MarketCharts }

\* datetime.fromtimestamp(timestamp / 1000).isoformat(): the seconds and the
\* microseconds the text shows.
IsoFormat(timestamp) == [s |-> timestamp \div 1000, us |-> (timestamp % 1000) * 1000]

\* Mutant of the pairing: beyond the end of the volume array the last volume
\* is carried on.
VolumeAtCarried(volumes, i) ==
    IF i <= Len(volumes) THEN volumes[i][2]
    ELSE IF volumes # <<>> THEN volumes[Len(volumes)][2] ELSE 0

\* volumes[i][1] if i < len(volumes) else 0, for the i-th point counted from 1
VolumeAt(volumes, i) == IF i <= Len(volumes) THEN volumes[i][2] ELSE 0

\* round(price, 2) if price else 0
RoundIf(x) == IF x # 0 THEN Round2(x) ELSE 0

\* int(volume) if volume else 0: thousandths in, whole units out
IntIf(x) == IF x # 0 THEN x \div 1000 ELSE 0

\* CryptoService.get_historical_data(crypto_id, days, interval) when
\* requests.get gives response.
crypto_get_historical_data(crypto_id, days, response) ==
    LET data == make_request(response)
    IN  IF ~data.some \/ IsEmptyDict(data.items) THEN NoRecord
        ELSE
        LET prices == GetOr(data.items.prices, ListOf(<<>>)).v
            volumes == GetOr(data.items.total_volumes, ListOf(<<>>)).v
            historical_data ==
                [i \in 1..Len(prices) |->
                    [datetime |-> IsoFormat(prices[i][1]),
                     price |-> RoundIf(prices[i][2]),
                     volume |-> IntIf(VolumeAt(volumes, i))]]
        IN  Rec([data |-> historical_data,
                 metadata |-> [id |-> crypto_id, days |-> days, currency |-> "USD",
                               lastUpdated |-> now]])

CallCryptoGetHistoricalData ==
    /\ call = NoCall
    /\ \E days \in {"1", "30"}, response \in ChartResponses :
        Returns("CryptoService.get_historical_data",
                [crypto_id |-> "bitcoin", days |-> days, ohlc |-> FALSE, response |-> response],
                crypto_get_historical_data("bitcoin", days, response))

(* ---- CryptoService.get_historical_ohlc ---- *)

\* Candle i of /coins/{id}/ohlc: [timestamp, open, high, low, close]; the
\* open of candle 2 is 0.
Candle(i) ==
    <<86400000 * i, IF i = 2 THEN 0 ELSE 67000000 + 1235 * i, 68000000 + 1235 * i,
      66000000 + 1235 * i, 67500005 + 1230 * i>>

OhlcResponses ==
    { [kind |-> "timeout", status |-> 0, json |-> <<>>],
      [kind |-> "http", status |-> 429, json |-> <<>>] }
    \cup { [kind |-> "http", status |-> 200, json |-> [i \in 1..n |-> Candle(i)]] :
             n \in 0..MaxPoints }

\* Mutant of get_historical_ohlc: the candles come out newest first.
get_historical_ohlc_reversed(crypto_id, days, response) ==
    LET data == make_request(response)
    IN  IF ~Truthy(data) THEN NoRecord
        ELSE
        LET n == Len(data.items)
            ohlc_data ==
                [i \in 1..n |->
                    [datetime |-> IsoFormat(data.items[n + 1 - i][1]),
                     open |-> RoundIf(data.items[n + 1 - i][2]),
                     high |-> RoundIf(data.items[n + 1 - i][3]),
                     low |-> RoundIf(data.items[n + 1 - i][4]),
                     close |-> RoundIf(data.items[n + 1 - i][5])]]
        IN  Rec([data |-> ohlc_data,
                 metadata |-> [id |-> crypto_id, days |-> days, currency |-> "USD",
                               ohlc |-> TRUE, lastUpdated |-> now]])

\* get_historical_ohlc(crypto_id, days) when requests.get gives response
get_historical_ohlc(crypto_id, days, response) ==
    LET data == make_request(response)
    IN  IF ~Truthy(data) THEN NoRecord
        ELSE
        LET ohlc_data ==
                [i \in 1..Len(data.items) |->
                    [datetime |-> IsoFormat(data.items[i][1]),
                     open |-> RoundIf(data.items[i][2]),
                     high |-> RoundIf(data.items[i][3]),
                     low |-> RoundIf(data.items[i][4]),
                     close |-> RoundIf(data.items[i][5])]]
        IN  Rec([data |-> ohlc_data,
                 metadata |-> [id |-> crypto_id, days |-> days, currency |-> "USD",
                               ohlc |-> TRUE, lastUpdated |-> now]])

CallGetHistoricalOhlc ==
    /\ call = NoCall
    /\ \E days \in {"1", "30"}, response \in OhlcResponses :
        Returns("CryptoService.get_historical_ohlc",
                [crypto_id |-> "bitcoin", days |-> days, ohlc |-> TRUE, response |-> response],
                get_historical_ohlc("bitcoin", days, response))

(* ---- StockService.get_historical_data ---- *)

\* A cell of the price frame that holds no number.
NaN == [t |-> "nan", v |-> 0]

\* Row i of the frame ticker.history returns: the index (ms), the prices (in
\* thousandths) and the volume.  In the rows of gaps Open and Volume are NaN.
HistoryRow(i, gaps) ==
    [index |-> 86400000 * i,
     Open |-> IF i \in gaps THEN NaN ELSE Num(100000 + 1235 * i),
     High |-> Num(112000 + 1235 * i),
     Low |-> Num(99000 + 1235 * i),
     Close |-> Num(110005 + 1230 * i),
     Volume |-> IF i \in gaps THEN NaN ELSE Num(52000 + i)]

\* What ticker.history gives: an exception, or a frame of 0..MaxPoints rows.
Histories ==
    { [raises |-> TRUE, rows |-> <<>>] }
    \cup { [raises |-> FALSE, rows |-> [i \in 1..n |-> HistoryRow(i, gaps)]] :
             n \in 0..MaxPoints, gaps \in {{}, {1}} }

\* round(float(x), 2) if not pd.isna(x) else None
RoundOrNone(c) == IF c.t = "nan" THEN Null ELSE Num(Round2(c.v))

\* StockService.get_historical_data(symbol, period, start, end, interval, ohlc)
\* when ticker.history gives hist and ticker.info['currency'] is currency.
\* start and end are "" when not given.  Close is never NaN in the frames of
\* the model.
stock_get_historical_data(symbol, period, start, end, interval, ohlc, hist, currency) ==
    IF hist.raises THEN NoRecord
    ELSE IF hist.rows = <<>> THEN NoRecord
    ELSE
    LET historical_data ==
            [i \in 1..Len(hist.rows) |->
                LET row == hist.rows[i]
                    data_point ==
                        [datetime |-> IsoFormat(row.index),
                         volume |-> IF row.Volume.t # "nan" THEN row.Volume.v ELSE 0]
                IN  IF ohlc
                    THEN [open |-> RoundOrNone(row.Open), high |-> RoundOrNone(row.High),
                          low |-> RoundOrNone(row.Low), close |-> RoundOrNone(row.Close)]
                         @@ data_point
                    ELSE [price |-> Round2(row.Close.v)] @@ data_point]
    IN  Rec([data |-> historical_data,
             metadata |-> [symbol |-> Upper(symbol),
                           period |-> IF start # "" /\ end # ""
                                      THEN <<start, " to ", end>> ELSE <<period>>,
                           interval |-> interval,
                           currency |-> GetOr(currency, Str("USD")),
                           ohlc |-> ohlc,
                           lastUpdated |-> now]])

CallStockGetHistoricalData ==
    /\ call = NoCall
    /\ \E ohlc \in BOOLEAN, hist \in Histories, currency \in {Missing, Str("EUR")},
          range \in {<<"", "">>, <<"2024-01-01", "2024-02-01">>} :
        Returns("StockService.get_historical_data",
                [symbol |-> "aapl", period |-> "1mo", start |-> range[1], end |-> range[2],
                 interval |-> "1d", ohlc |-> ohlc, hist |-> hist, currency |-> currency],
                stock_get_historical_data("aapl", "1mo", range[1], range[2], "1d", ohlc,
                                          hist, currency))

(* ---- Properties of the history normalizers ---- *)

HistoryCalls ==
    {"StockService.get_historical_data", "CryptoService.get_historical_data",
     "CryptoService.get_historical_ohlc"}

\* The price array and the volume array the market-chart call was answered
\* with (empty when the request failed or the key is missing).
UpstreamPrices ==
    LET response == call.arg.response
    IN  IF response.kind = "http" /\ response.status = 200 /\ response.json.prices.t = "list"
        THEN response.json.prices.v ELSE <<>>
UpstreamVolumes ==
    LET response == call.arg.response
    IN  IF response.kind = "http" /\ response.status = 200
           /\ response.json.total_volumes.t = "list"
        THEN response.json.total_volumes.v ELSE <<>>

\* How many data points the upstream result of the call holds.
UpstreamPoints ==
    CASE call.fn = "StockService.get_historical_data" -> Len(call.arg.hist.rows)
      [] call.fn = "CryptoService.get_historical_data" -> Len(UpstreamPrices)
      [] call.fn = "CryptoService.get_historical_ohlc" ->
            IF call.arg.response.kind = "http" /\ call.arg.response.status = 200
            THEN Len(call.arg.response.json) ELSE 0

\* C18: each of the three history normalizers returns None whenever the
\* upstream result holds no data points, and no series it returns has an
\* empty data list.
C18_EmptySeriesAbsent ==
    call.fn \in HistoryCalls =>
        /\ UpstreamPoints = 0 => call.ret = NoRecord
        /\ call.ret.some => call.ret.rec.data # <<>>

\* C19: from a market-chart payload with P prices and V volumes
\* CryptoService.get_historical_data returns exactly P points, and point i
\* carries the volume at place i of the volume array (as a whole number)
\* when that place exists and 0 when the volume array is shorter.
C19_PositionalPairing ==
    (call.fn = "CryptoService.get_historical_data" /\ call.ret.some)
    => LET points == call.ret.rec.data
       IN  /\ Len(points) = Len(UpstreamPrices)
           /\ \A i \in 1..Len(points) :
                /\ points[i].datetime = IsoFormat(UpstreamPrices[i][1])
                /\ i <= Len(UpstreamVolumes)
                     => points[i].volume = UpstreamVolumes[i][2] \div 1000
                /\ i > Len(UpstreamVolumes) => points[i].volume = 0

\* Five prices and three volumes: the third point carries its volume, the
\* fourth and the fifth carry 0.
C19_Witness ==
    /\ call.fn = "CryptoService.get_historical_data"
    /\ Len(UpstreamPrices) = 5
    /\ Len(UpstreamVolumes) = 3
    /\ call.ret.some
    /\ Len(call.ret.rec.data) = 5
    /\ call.ret.rec.data[2].volume = 35003
    /\ call.ret.rec.data[3].volume = 35005
    /\ call.ret.rec.data[4].volume = 0
    /\ call.ret.rec.data[5].volume = 0

\* The fields of a point of a line series and of a candlestick series.
LineFields == {"datetime", "price", "volume"}
CandleFields == {"datetime", "open", "high", "low", "close"}

\* C20: in every series a history normalizer returns each point has the field
\* set of the requested shape (line: datetime, price, volume; candlestick:
\* datetime, open, high, low, close, and volume for equities only), and the
\* metadata of the series carries an ohlc boolean equal to the requested shape,
\* for equity and crypto series alike.
C20_UniformSeriesShape ==
    (call.fn \in HistoryCalls /\ call.ret.some)
    => LET shape == IF ~call.arg.ohlc THEN LineFields
                    ELSE IF call.fn = "StockService.get_historical_data"
                         THEN CandleFields \cup {"volume"}
                         ELSE CandleFields
           series == call.ret.rec
       IN  /\ \A i \in 1..Len(series.data) : DOMAIN series.data[i] = shape
           /\ "ohlc" \in DOMAIN series.metadata
           /\ series.metadata.ohlc = call.arg.ohlc

\* The timestamp (ms) and the closing price (thousandths) of the i-th
\* upstream point of the call.
UpstreamTimestamp(i) ==
    CASE call.fn = "StockService.get_historical_data" -> call.arg.hist.rows[i].index
      [] call.fn = "CryptoService.get_historical_data" -> UpstreamPrices[i][1]
      [] call.fn = "CryptoService.get_historical_ohlc" -> call.arg.response.json[i][1]
UpstreamClose(i) ==
    CASE call.fn = "StockService.get_historical_data" -> call.arg.hist.rows[i].Close.v
      [] call.fn = "CryptoService.get_historical_data" -> UpstreamPrices[i][2]
      [] call.fn = "CryptoService.get_historical_ohlc" -> call.arg.response.json[i][5]

\* The closing price a point of the returned series shows (hundredths).
PointClose(point) ==
    IF "price" \in DOMAIN point THEN point.price
    ELSE IF call.fn = "StockService.get_historical_data" THEN point.close.v
    ELSE point.close

\* One instant of a series is before another.
Before(a, b) == a.s < b.s \/ (a.s = b.s /\ a.us < b.us)

\* C21: the data list of a returned series has one point per upstream point;
\* point i shows the instant and the (rounded) closing price of upstream
\* point i, so nothing is dropped, duplicated or reordered, and where the
\* upstream instants ascend so do those of the output.
C21_SeriesOrderPreserved ==
    (call.fn \in HistoryCalls /\ call.ret.some)
    => LET points == call.ret.rec.data
       IN  /\ Len(points) = UpstreamPoints
           /\ \A i \in 1..Len(points) :
                /\ points[i].datetime.s = UpstreamTimestamp(i) \div 1000
                /\ points[i].datetime.us = (UpstreamTimestamp(i) % 1000) * 1000
                /\ PointClose(points[i])
                     = IF UpstreamClose(i) = 0 THEN 0 ELSE Round2(UpstreamClose(i))
           /\ \A i, j \in 1..Len(points) :
                (i < j /\ UpstreamTimestamp(i) < UpstreamTimestamp(j))
                    => Before(points[i].datetime, points[j].datetime)

\* Five candles came back as five points, the last one that of the fifth day.
C21_Witness ==
    /\ call.fn = "CryptoService.get_historical_ohlc"
    /\ call.ret.some
    /\ Len(call.arg.response.json) = 5
    /\ Len(call.ret.rec.data) = 5
    /\ call.ret.rec.data[1].datetime.s = 86400
    /\ call.ret.rec.data[5].datetime.s = 432000
    /\ call.ret.rec.data[5].close = 6750616

(* ---- Exceptions ---- *)

\* The core operations among the stateless methods.
CoreCalls ==
    {"get_stock_data", "get_crypto_data", "StockService.get_historical_data",
     "CryptoService.get_historical_data", "CryptoService.get_historical_ohlc"}

\* C22: whatever the upstream answers (nothing, a rate limit, a non-200, a
\* payload with a null sub-object or an empty list field), a core operation
\* ends by returning a record or the sentinel None; it never ends by raising.
C22_NoExceptionPastBoundary ==
    call.fn \in CoreCalls => (call.ret.some \/ call.ret = NoRecord)

(* ---- The route /api/crypto/<crypto_id> ---- *)

\* str.lower() on the ids of the model
Lower(s) == IF s = "Bitcoin" THEN "bitcoin" ELSE s

\* What a route answers: jsonify(data) or (jsonify({'error': ...}), status).
Answer(status) == [status |-> status]

\* get_crypto_info: the record as 200, no record as 404, and an exception of
\* get_crypto_data, caught by the route, as 500.
get_crypto_info(crypto_id, full_data, response) ==
    LET data == get_crypto_data(Lower(crypto_id), full_data, response)
    IN  IF data = Raise THEN Answer(500)
        ELSE IF data.some THEN Answer(200)
        ELSE Answer(404)

CallGetCryptoInfo ==
    /\ call = NoCall
    /\ \E crypto_id \in {"bitcoin", "Bitcoin"}, full_data \in BOOLEAN,
          response \in CoinResponses :
        Returns("get_crypto_info",
                [crypto_id |-> crypto_id, full_data |-> full_data, response |-> response],
                get_crypto_info(crypto_id, full_data, response))

\* The upstream failed: no answer, a rate limit or another non-200 status.
UpstreamError(response) == response.kind # "http" \/ response.status # 200

\* C23: a request whose upstream call failed (transport failure, rate limit,
\* non-200) is answered with HTTP 500, never with 404; a request whose
\* upstream answered without a usable record is answered with HTTP 404.
C23_StatusMapping ==
    call.fn = "get_crypto_info" =>
        /\ UpstreamError(call.arg.response) => call.ret.status = 500
        /\ ~(UpstreamError(call.arg.response) /\ call.ret.status = 404)
        /\ (~UpstreamError(call.arg.response) /\ IsEmptyDict(call.arg.response.json))
             => call.ret.status = 404

(* ---- Rounding ---- *)

\* An amount in thousandths has at most two decimal places.
TwoPlaces(x) == x % 10 = 0

\* C24: every monetary field of a record leaving a normalizer is rounded to
\* two decimal places: for the equity record price, change and the day and
\* 52-week highs and lows are round(raw, 2); for the coin record, whose price
\* and 24h high and low the model carries in thousandths, none of them has a
\* third decimal; and normalizing the same payload again gives the same
\* record.
C24_RoundingInvariant ==
    /\ (call.fn = "get_stock_data" /\ call.ret.some)
         => LET info == call.arg.info
                record == call.ret.rec
            IN  /\ record.price = Round2(PriceOf(info).v)
                /\ record.dayHigh = Round2(GetOr(info.dayHigh, Num(0)).v)
                /\ record.dayLow = Round2(GetOr(info.dayLow, Num(0)).v)
                /\ call.ret = get_stock_data(call.arg.symbol, call.arg.full_data, info)
    /\ (call.fn = "get_crypto_data" /\ call.ret.some)
         => /\ \A k \in {"price", "high24h", "low24h"} :
                 call.ret.rec[k].t = "num" => TwoPlaces(call.ret.rec[k].v)
            /\ call.ret = get_crypto_data(call.arg.crypto_id, call.arg.full_data,
                                          call.arg.response)

(* ---- utils/validators.py: validate_top_stocks_count ---- *)

\* A float argument, in thousandths.
Float(x) == [t |-> "float", v |-> x]

\* Arguments of validate_top_stocks_count: integers, floats, strings, None.
TopValues ==
    {Num(n) : n \in {-10, 0, 1, 2, 50, 99, 100, 101, 200}}
    \cup {Float(25900), Float(-500), Float(100999), Float(-1500)}
    \cup {Str("25"), Str(" 7 "), Str("-3"), Str("101"), Str("invalid"), Str(""), Str("3.7")}
    \cup {Null}

\* int(top) succeeds: an int, a float, or a string that is an integer
\* literal, white space around it allowed.
Convertible(top) ==
    \/ top.t \in {"num", "float"}
    \/ top.t = "str" /\ top.v \in {"25", " 7 ", "-3", "101"}

\* int(top) where it succeeds: a float is cut towards zero.
IntOf(top) ==
    CASE top.t = "num" -> top.v
      [] top.t = "float" -> IF top.v >= 0 THEN top.v \div 1000 ELSE -((-top.v) \div 1000)
      [] top.v = "25" -> 25
      [] top.v = " 7 " -> 7
      [] top.v = "-3" -> -3
      [] top.v = "101" -> 101

\* validate_top_stocks_count(top): int(top) raises ValueError or TypeError
\* where it does not succeed.
validate_top_stocks_count(top) ==
    IF Convertible(top)
    THEN [value |-> Clamp(IntOf(top), MAX_TOP_STOCKS), error |-> Null]
    ELSE [value |-> DEFAULT_TOP_STOCKS, error |-> Str("Invalid top count, using default")]

CallValidateTopStocksCount ==
    /\ call = NoCall
    /\ \E top \in TopValues :
        Returns("validate_top_stocks_count", top, validate_top_stocks_count(top))

\* C25: for an argument that converts to an integer n the validator returns
\* (n held to 1..100, None); for None and for a string that is no integer it
\* returns (10, 'Invalid top count, using default'); validating a returned
\* count again returns the same count.
C25_TopCountClamp ==
    call.fn = "validate_top_stocks_count" =>
        LET top == call.arg
            n == IntOf(top)
        IN  /\ call.ret.value \in 1..MAX_TOP_STOCKS
            /\ Convertible(top) =>
                 /\ call.ret.error = Null
                 /\ n < 1 => call.ret.value = 1
                 /\ n > MAX_TOP_STOCKS => call.ret.value = MAX_TOP_STOCKS
                 /\ n \in 1..MAX_TOP_STOCKS => call.ret.value = n
            /\ ~Convertible(top) =>
                 /\ call.ret.value = DEFAULT_TOP_STOCKS
                 /\ call.ret.error = Str("Invalid top count, using default")
            /\ validate_top_stocks_count(Num(call.ret.value)) = [value |-> call.ret.value, error |-> Null]

\* The float 25.9 gave 25 and no message.
C25_Witness ==
    /\ call.fn = "validate_top_stocks_count"
    /\ call.arg = Float(25900)
    /\ call.ret = [value |-> 25, error |-> Null]

(* ---- utils/validators.py: the enum validators ---- *)

VALID_PERIODS == <<"1d", "5d", "1mo", "3mo", "6mo", "1y", "2y", "5y", "10y", "ytd", "max">>
VALID_INTERVALS ==
    <<"1m", "2m", "5m", "15m", "30m", "60m", "90m", "1h", "1d", "5d", "1wk", "1mo", "3mo">>
VALID_CRYPTO_DAYS == <<"1", "7", "14", "30", "90", "180", "365", "max">>

\* The elements of a list.
Elements(q) == {q[i] : i \in 1..Len(q)}

\* Arguments of the validators: the listed values, near misses, the integers
\* 30 and 1, and None.
EnumValues ==
    {Str(x) : x \in Elements(VALID_PERIODS) \cup Elements(VALID_INTERVALS)
                    \cup Elements(VALID_CRYPTO_DAYS)
                    \cup {"2d", "1D", "", "2h", "1H", "MAX", "30 ", "None"}}
    \cup {Num(30), Num(1), Null}

\* f'{value}' for the arguments of the model
TextOf(value) ==
    CASE value.t = "str" -> value.v
      [] value.t = "null" -> "None"
      [] value.t = "num" /\ value.v = 30 -> "30"
      [] value.t = "num" /\ value.v = 1 -> "1"

RECURSIVE Join(_)
\* ", ".join(options), as the pieces of the text
Join(options) ==
    IF Len(options) <= 1 THEN options
    ELSE <<Head(options), ", ">> \o Join(Tail(options))

\* Mutant of the membership test: values are compared by their text.
InListByText(value, options) == TextOf(value) \in Elements(options)

\* value in options: == between a str and an int or None is False
InList(value, options) == value.t = "str" /\ value.v \in Elements(options)

\* The three validators differ in the word of the message and in the list.
\* The message is given as the pieces the f-string puts together.
validate_enum(word, value, options) ==
    IF ~InList(value, options)
    THEN [valid |-> FALSE,
          error |-> ListOf(<<"Invalid ", word, ": \"", TextOf(value), "\". Use: ">>
                           \o Join(options))]
    ELSE [valid |-> TRUE, error |-> Null]

validate_period(period) == validate_enum("period", period, VALID_PERIODS)
validate_interval(interval) == validate_enum("interval", interval, VALID_INTERVALS)
validate_crypto_days(days) == validate_enum("days", days, VALID_CRYPTO_DAYS)

CallValidatePeriod ==
    /\ call = NoCall
    /\ \E period \in EnumValues : Returns("validate_period", period, validate_period(period))

CallValidateInterval ==
    /\ call = NoCall
    /\ \E interval \in EnumValues :
        Returns("validate_interval", interval, validate_interval(interval))

CallValidateCryptoDays ==
    /\ call = NoCall
    /\ \E days \in EnumValues : Returns("validate_crypto_days", days, validate_crypto_days(days))

\* The Config list a validator checks against.
OptionsOf(fn) ==
    CASE fn = "validate_period" -> VALID_PERIODS
      [] fn = "validate_interval" -> VALID_INTERVALS
      [] fn = "validate_crypto_days" -> VALID_CRYPTO_DAYS

\* C26: each enum validator returns (True, None) exactly when its argument is
\* a string that is an element of its Config list, letter case and type
\* counting ('1D', '' and the integer 30 are rejected); otherwise it returns
\* (False, message), and the message shows the rejected value and every valid
\* option.
C26_EnumValidators ==
    call.fn \in {"validate_period", "validate_interval", "validate_crypto_days"} =>
        LET options == OptionsOf(call.fn)
            member == call.arg.t = "str" /\ \E i \in 1..Len(options) : options[i] = call.arg.v
        IN  /\ call.ret.valid <=> member
            /\ call.ret.valid => call.ret.error = Null
            /\ ~call.ret.valid =>
                 /\ call.ret.error.t = "list"
                 /\ TextOf(call.arg) \in Elements(call.ret.error.v)
                 /\ Elements(options) \subseteq Elements(call.ret.error.v)
            /\ (call.arg.t = "str" /\ call.arg.v \in {"1D", "", "1H", "MAX"}) => ~call.ret.valid
            /\ call.arg.t # "str" => ~call.ret.valid

\* The integer 30 was rejected by validate_crypto_days, whose list holds '30'.
C26_Witness ==
    /\ call.fn = "validate_crypto_days"
    /\ call.arg = Num(30)
    /\ ~call.ret.valid
    /\ call.ret.error.v[4] = "30"

(* ------------------------------------------------------------------ *)
(* C27..C30: the popular-list caches, again                            *)
(* ------------------------------------------------------------------ *)

\* The request of thread t has returned a list.
ReturnedList(t) == req[t].pc = "done" /\ req[t].result.kind = "list"

\* C27 (result length bound): a popular-list request for N items, N after
\* clamping to 1..100, that returns a list - by cache hit, fresh fetch, stale
\* fallback or static fallback - returns at most N items.
C27_ResultLengthBound ==
    \A t \in Threads :
        ReturnedList(t) => Len(req[t].result.items) <= req[t].top

\* The request of thread t is one that may write the cache entry: its fetch
\* succeeded, or it is an equities request whose fetch raised and which installs
\* the static list.
MayWrite(t) ==
    \/ req[t].resp = "ok" /\ req[t].pc \in StoreDataPcs \cup StoreTimestampPcs
    \/ service = "stocks" /\ req[t].resp = "exception" /\ req[t].pc \in FallbackPcs

\* A step changes the cache entry (data or timestamp) only if it is a step of a
\* request that may write.
C28_StepRule ==
    \A t \in Threads :
        (Steps(t) /\ CacheNext # Cache) => MayWrite(t)

\* How a finished request that is neither a fresh fetch nor a static fallback
\* came about: a hit made no fetch, a stale list or None is the end of a failed
\* crypto fetch, an error that of an equities fetch answered with a non-200
\* status or with no matching element.  None of these has been in MayWrite.
C28_StateRule ==
    \A t \in Threads :
        req[t].pc = "done" =>
            /\ req[t].outcome \in {"hit", "fresh", "static", "stale", "none", "error"}
            /\ req[t].outcome = "hit" => req[t].resp = "none"
            /\ req[t].outcome \in {"stale", "none"} =>
                   service = "crypto" /\ req[t].resp \in {"exception", "non200", "nomatch"}
            /\ req[t].outcome = "error" =>
                   service = "stocks" /\ req[t].resp \in {"non200", "nomatch"}
            /\ req[t].outcome = "fresh" => req[t].resp = "ok"
            /\ req[t].outcome = "static" => service = "stocks" /\ req[t].resp = "exception"

\* C28 (frame on failure): a popular-list request changes the cache entry only
\* by a successful fetch or by installing the static fallback; a cache hit, a
\* failed crypto fetch (with or without stale data to return) and an equities
\* fetch answered with a non-200 status or with no matching elements leave the
\* cached data and its timestamp unchanged.
C28_FrameOnFailure == [][C28_StepRule]_vars /\ []C28_StateRule

\* A failed request has ended next to a cache entry that holds fetched data under
\* its old, expired timestamp: a crypto request served stale, or an equities
\* request answered 500 / 404.
C28_Witness ==
    \E t \in Threads :
        /\ req[t].pc = "done"
        /\ req[t].outcome \in {"stale", "error"}
        /\ req[t].resp \in {"non200", "nomatch"}
        /\ Truthy(Cache.data)
        /\ Origin.src = "fetch"
        /\ now - Cache.timestamp >= TTL

\* The caches of a process that has served one popular-list request before:
\* the request asked for one item, its fetch succeeded, and it stored the list
\* and then the timestamp (cache_service.py 56-57, crypto_service.py 85-86).
\* Further requests start from there.
WarmStocksCache ==
    [data |-> List(ScrapeSymbols(<<"NVDA", "AAPL", "GOOG">>, Clamp(0, MAX_TOP_STOCKS))),
     timestamp |-> InstantTable[1]]
WarmCryptoCache ==
    [data |-> List(CryptoRecords(Prefix(<<Bitcoin, Ethereum, Tether>>, Clamp(0, MAX_TOP_CRYPTOS)))),
     timestamp |-> InstantTable[1]]

WarmInit ==
    /\ now = InstantTable[1]
    /\ service \in {"stocks", "crypto"}
    /\ popular_stocks_cache = IF service = "stocks" THEN WarmStocksCache ELSE EmptyCache
    /\ popular_crypto_cache = IF service = "crypto" THEN WarmCryptoCache ELSE EmptyCache
    /\ req = [t \in Threads |-> Idle]
    /\ origin = [c \in {"stocks", "crypto"} |->
                    IF c = service THEN [seq |-> 1, src |-> "fetch", tseq |-> 1]
                    ELSE [seq |-> 0, src |-> "none", tseq |-> 0]]
    /\ nreq = 0
    /\ call = NoCall

WarmSpec == WarmInit /\ [][Next]_vars

\* C29 (no torn cache entry): in every interleaving of concurrent requests, a
\* request that serves a cache hit serves a list stored by the very refresh whose
\* timestamp passed its age test; it never observes the data of one refresh
\* together with the timestamp of another.
C29_StepRule ==
    \A t \in Threads :
        (req[t].pc \in HitPcs /\ Steps(t)) => Origin.seq = req[t].checked

C29_NoTornEntry == [][C29_StepRule]_vars

(* ------------------------------------------------------------------ *)
(* Recovery: the upstream is healthy from the last fallback on         *)
(* ------------------------------------------------------------------ *)

\* The caches right after the last fallback, at the first instant.  Equities:
\* a fetch raised and the static list was installed and stamped
\* (cache_service.py 61-66).  Crypto: the entry holds one coin, a request for
\* more found it short, its fetch failed and the stale list was served
\* (crypto_service.py 90-93), which leaves the entry as it was.
FallbackStocksCache ==
    [data |-> List(DEFAULT_TOP_STOCKS_LIST), timestamp |-> InstantTable[1]]

RecoveryInit ==
    /\ now = InstantTable[1]
    /\ service \in {"stocks", "crypto"}
    /\ popular_stocks_cache = IF service = "stocks" THEN FallbackStocksCache ELSE EmptyCache
    /\ popular_crypto_cache = IF service = "crypto" THEN WarmCryptoCache ELSE EmptyCache
    /\ req = [t \in Threads |-> Idle]
    /\ origin = [c \in {"stocks", "crypto"} |->
                    IF c # service THEN [seq |-> 0, src |-> "none", tseq |-> 0]
                    ELSE [seq |-> 1, src |-> IF c = "stocks" THEN "static" ELSE "fetch",
                          tseq |-> 1]]
    /\ nreq = 0
    /\ call = NoCall

\* The upstream answers 200 with a listing: '.company-code' elements on the
\* page, a non-empty JSON list of coins.
HealthyStocksResponse(t) == StocksResponse(t) /\ req'[t].resp = "ok"
HealthyCryptoResponse(t) == CryptoResponse(t) /\ req'[t].resp = "ok"

\* The steps of request thread t once its request has arrived.
ServeStep(t) ==
    \/ StocksTestData(t)
    \/ StocksTestAge(t)
    \/ StocksTestLen(t)
    \/ StocksHit(t)
    \/ HealthyStocksResponse(t)
    \/ StocksStoreData(t)
    \/ StocksStoreTimestamp(t)
    \/ CryptoTestData(t)
    \/ CryptoTestAge(t)
    \/ CryptoTestLen(t)
    \/ CryptoHit(t)
    \/ HealthyCryptoResponse(t)
    \/ CryptoStoreData(t)
    \/ CryptoStoreTimestamp(t)

RecoveryNext ==
    \/ Running /\ Tick
    \/ Running /\ \E t \in Threads : StocksCall(t)
    \/ Running /\ \E t \in Threads : CryptoCall(t)
    \/ Running /\ \E t \in Threads : ServeStep(t)
    \/ \E t \in Threads : Finish(t)

\* A request thread that can take a step takes it: the worker is scheduled, and
\* the upstream call returns within REQUEST_TIMEOUT.  Nothing makes requests
\* arrive or the clock be read.
RecoveryFairness ==
    /\ \A t \in Threads : WF_vars(Running /\ ServeStep(t))
    /\ \A t \in Threads : WF_vars(Finish(t))

RecoverySpec == RecoveryInit /\ [][RecoveryNext]_vars /\ RecoveryFairness

\* The entry is still the one the last fallback left: the static list, or the
\* stale list that was served.
FallbackEntry == Origin.seq = 1

\* At least one TTL has passed since the last fallback.
TTLPassed == now - InstantTable[1] >= TTL

\* The first request to test the entry at least one TTL after the last
\* fallback issues an upstream fetch.
C30_TestRule ==
    \A t \in Threads :
        (req[t].pc \in AgePcs /\ Steps(t) /\ FallbackEntry /\ TTLPassed)
        => /\ req'[t].pc \in GetPcs
           /\ req'[t].why = "expired"

\* A request that has arrived at least one TTL after the last fallback.
ArrivedLate(t) == req[t].pc \in {"s_data", "c_data"} /\ TTLPassed

\* The request of thread t returns the list it has fetched.
ReturnsFresh(t) ==
    /\ req[t].pc = "done"
    /\ req[t].outcome = "fresh"
    /\ req[t].resp = "ok"
    /\ req[t].result = RetList(req[t].fetched)

\* The request of thread t is a hit on a list fetched since the fallback.
HitsFetched(t) ==
    /\ req[t].pc = "done"
    /\ req[t].outcome = "hit"
    /\ ~FallbackEntry
    /\ Origin.src = "fetch"
    /\ req[t].result = RetList(FirstItems(Cache.data.items, req[t].top))

\* C30 (recovery from fallback): with the upstream healthy from the last
\* fallback on (static list installed for equities, stale list served for
\* crypto), the first request to test the cache at least one TTL after that
\* fallback issues an upstream fetch, and a request that has issued its fetch
\* returns the freshly fetched data; a request that arrives after the TTL
\* returns a list it has fetched or, when a concurrent request has replaced the
\* entry meanwhile, a hit on that fetched list; so once a request has arrived
\* after the TTL, the fallback entry is replaced by fetched data and some
\* request returns a freshly fetched list.
\* A request that has issued its fetch goes on to store the list it fetched,
\* and returns that list.
C30_FetchRule ==
    \A t \in Threads :
        /\ (req[t].pc \in GetPcs /\ Steps(t))
               => req'[t].pc \in StoreDataPcs /\ req'[t].resp = "ok"
        /\ (req[t].pc \in StoreDataPcs /\ Steps(t))
               => /\ req'[t].pc \in StoreTimestampPcs
                  /\ CacheNext.data = List(req[t].fetched)
        /\ (req[t].pc \in StoreTimestampPcs /\ Steps(t))
               => /\ req'[t].pc = "done"
                  /\ req'[t].outcome = "fresh"
                  /\ req'[t].result = RetList(req[t].fetched)

C30_RecoveryFromFallback ==
    /\ [][C30_TestRule /\ C30_FetchRule]_vars
    /\ \A t \in Threads : ArrivedLate(t) ~> (ReturnsFresh(t) \/ HitsFetched(t))
    /\ (FallbackEntry /\ \E t \in Threads : ArrivedLate(t))
          ~> (~FallbackEntry /\ Origin.src = "fetch" /\ \E t \in Threads : ReturnsFresh(t))

\* The first request after the TTL has returned the list it fetched, which has
\* replaced the fallback entry in the cache.
C30_Witness ==
    \E t \in Threads :
        /\ ReturnsFresh(t)
        /\ req[t].why = "expired"
        /\ nreq = 1
        /\ TTLPassed
        /\ ~FallbackEntry
        /\ Cache.data = List(req[t].result.items)
        /\ Cache.timestamp = now

(* ---- The calls ---- *)

MethodNext ==
    \/ CallMakeRequest
    \/ CallGetStockData
    \/ CallGetCryptoData
    \/ CallGetCryptoBySymbol
    \/ CallCryptoGetHistoricalData
    \/ CallGetHistoricalOhlc
    \/ CallStockGetHistoricalData
    \/ CallGetCryptoInfo
    \/ CallValidateTopStocksCount
    \/ CallValidatePeriod
    \/ CallValidateInterval
    \/ CallValidateCryptoDays

MethodSpec == MethodInit /\ [][MethodNext]_vars

====
